---- MODULE Spec2Model ----
(***************************************************************************)
(* A model of wu-cli's ingestion-and-access-control core: the constraint   *)
(* engine, the gated write operations, the PID-file instance lock, the     *)
(* idempotent store upserts, the listener's event handlers and the query   *)
(* tools.                                                                  *)
(*                                                                         *)
(* Conventions.  A nullable value is a sequence of length at most one:     *)
(* <<>> is SQL NULL / JS undefined, <<v>> is the value v.  A string the    *)
(* code takes apart (a jid) is a sequence of tokens, "@" being a token of  *)
(* its own, so that indexOf("@"), substring and endsWith are computed.     *)
(***************************************************************************)
EXTENDS Integers, Sequences, FiniteSets, TLC

VARIABLES
    \* constraint engine, applied to one drawn input
    rJid, rCfg, rOut,
    \* write operations: the policy in force, the transport's call log, the last outcome
    sendCfg, sockLog, sendResult,
    \* instance lock: the PID file, the live processes, each process's position in
    \* the call it is running, the pid it read, whether acquireLock returned to it,
    \* and the outcome of the last acquireLock call
    lockFile, alive, pc, seen, held, lockRes,
    \* store: the messages and chats tables (sets of rows), and the last store
    \* operation with the row a single-row upsert was given
    messages, chats, storeOp, storeArg,
    \* listener and queries: the policy the listener was started with, the policy in
    \* the config file, the listener's deduplicator, the contacts and
    \* group_participants tables, the messages handed to the onMessage callback, the
    \* response to the last query, and the number of transport events handled
    listenerConfig, diskCfg, dedup, contacts, participants, forwarded, qOut, nEvents,
    \* a deduplicator on its own: its keys in insertion order, its capacity, and the
    \* last call with what it returned and the key it evicted
    dMap, dMaxSize, dRes,
    \* MCP server: what its start finds (a live lock holder, a default remote, a local
    \* database, whether the transport connects), where it is, its sock, remoteForTools
    \* and ownsConnection, what its tools dispatched, and the last tool result
    mcpIn, mcpPc, mSock, remoteForTools, ownsConnection, mcpLog, mcpRes,
    \* connection supervisor: the daemon flag, the failure count, stopped, the state of
    \* the latest socket, a connect() in progress, the pending reconnect timer (its
    \* delay), the last close reason, onFatal called, where stop and the owner's
    \* shutdown are, and what the shutdown did
    supDaemon, consecutiveFailures, stopped, sockState, creating, reconnectTimer,
    lastClose, fatal, supPc, shutLog,
    \* credentials: changes received so far, the change on disk, credsDirty of the
    \* latest connection, the shared debounce timer, the saveCreds calls in flight, and
    \* the changes received when stop's flush returned
    credsSeq, credsSaved, credsDirty, credsTimer, saving, flushedAt,
    \* asyncPool: its arguments (the items, the concurrency, and for fn what the task
    \* of each index does), nextIndex, completed, results by index, each worker's
    \* position (the index it awaits, or done), how often fn was called for each index,
    \* the onProgress calls, and what asyncPool returned
    items, concurrency, fn, nextIndex, completed, results, workers, calls, progress, returned,
    \* spawnSsh: the retries it was called with, the retries left, where it is (an ssh
    \* running, the retry timer pending, resolved), the attempts made, what the last
    \* attempt ended with, what the call resolved with
    sshRetries0, sshRetries, sshPc, sshAttempts, sshLast, sshOut,
    \* backfillHistory: where the call is, the count asked for, the waiter's totalNew, whether its
    \* handler is registered, its timer pending and its promise resolved, whether the timer
    \* fired, and the order of registration and request
    bfPc, bfCount, totalNew, bfHandler, bfTimer, bfResolved, bfTimedOut, bfLog,
    \* the database: whether the file on disk has the messages_fts index, the open handle
    \* (_db: none, or whether the opened file has the index), the cached _ftsAvailable,
    \* and what the last searchMessages gave
    diskFts, dbOpen, ftsAvailable, searchRes,
    \* the history handler: the collection whose transaction threw, as safeHandler logs it,
    \* and the rows the handler built from the batch
    histErr, histRows,
    \* safeHandler: the handler names logger.error was called with, and whether
    \* an exception left a listener into the emitter
    handlerErrors, escaped,
    \* runDaemon: whether its await conn.start() has resumed
    started,
    \* the remote peer: the attempts of the call in which the sub-command ran to
    \* completion
    remoteRan

resolveVars ==
    <<rJid, rCfg, rOut>>
sendVars ==
    <<sendCfg, sockLog, sendResult>>
lockVars ==
    <<lockFile, alive, pc, seen, held, lockRes>>
storeVars ==
    <<messages, chats, storeOp, storeArg>>
ingestVars ==
    <<listenerConfig, diskCfg, dedup, contacts, participants, forwarded, qOut,
      nEvents>>
dedupVars ==
    <<dMap, dMaxSize, dRes>>
mcpVars ==
    <<mcpIn, mcpPc, mSock, remoteForTools, ownsConnection, mcpLog, mcpRes>>
supVars ==
    <<supDaemon, consecutiveFailures, stopped, sockState, creating, reconnectTimer,
      lastClose, fatal, supPc, shutLog, credsSeq, credsSaved, credsDirty, credsTimer,
      saving, flushedAt>>
poolVars ==
    <<items, concurrency, fn, nextIndex, completed, results, workers, calls, progress,
      returned>>
sshVars ==
    <<sshRetries0, sshRetries, sshPc, sshAttempts, sshLast, sshOut>>
backfillVars ==
    <<bfPc, bfCount, totalNew, bfHandler, bfTimer, bfResolved, bfTimedOut, bfLog>>
ftsVars ==
    <<diskFts, dbOpen, ftsAvailable, searchRes>>
histVars ==
    <<histErr, histRows>>
safeVars ==
    <<handlerErrors, escaped>>
daemonVars ==
    <<started>>
remoteVars ==
    <<remoteRan>>
vars ==
    <<resolveVars, sendVars, lockVars, storeVars, ingestVars, dedupVars, mcpVars,
      supVars, poolVars, sshVars, backfillVars, ftsVars, histVars, safeVars,
      daemonVars, remoteVars>>

\* what the actions of one component leave alone
exceptResolve ==
    <<sendVars, lockVars, storeVars, ingestVars, dedupVars, mcpVars, supVars, poolVars,
      sshVars, backfillVars, ftsVars, histVars, safeVars, daemonVars, remoteVars>>
exceptSend ==
    <<resolveVars, lockVars, storeVars, ingestVars, dedupVars, mcpVars, supVars,
      poolVars, sshVars, backfillVars, ftsVars, histVars, safeVars, daemonVars,
      remoteVars>>
exceptLock ==
    <<resolveVars, sendVars, storeVars, ingestVars, dedupVars, mcpVars, supVars,
      poolVars, sshVars, backfillVars, ftsVars, histVars, safeVars, daemonVars,
      remoteVars>>
exceptStore ==
    <<resolveVars, sendVars, lockVars, ingestVars, dedupVars, mcpVars, supVars,
      poolVars, sshVars, backfillVars, ftsVars, histVars, safeVars, daemonVars,
      remoteVars>>
exceptIngest ==
    <<resolveVars, sendVars, lockVars, storeOp, storeArg, dedupVars, mcpVars, supVars,
      poolVars, sshVars, backfillVars, ftsVars, histVars, safeVars, daemonVars,
      remoteVars>>
exceptDedup ==
    <<resolveVars, sendVars, lockVars, storeVars, ingestVars, mcpVars, supVars,
      poolVars, sshVars, backfillVars, ftsVars, histVars, safeVars, daemonVars,
      remoteVars>>
exceptMcp ==
    <<resolveVars, sendVars, alive, pc, seen, held, lockRes, chats, storeOp, storeArg,
      ingestVars, dedupVars, supVars, poolVars, sshVars, backfillVars, ftsVars,
      histVars, safeVars, daemonVars, remoteVars>>
exceptSup ==
    <<resolveVars, sendVars, lockVars, storeVars, ingestVars, dedupVars, mcpVars,
      poolVars, sshVars, backfillVars, ftsVars, histVars, safeVars, daemonVars,
      remoteVars>>
exceptPool ==
    <<resolveVars, sendVars, lockVars, storeVars, ingestVars, dedupVars, mcpVars,
      supVars, sshVars, backfillVars, ftsVars, histVars, safeVars, daemonVars,
      remoteVars>>
exceptSsh ==
    <<resolveVars, sendVars, lockVars, storeVars, ingestVars, dedupVars, mcpVars,
      supVars, poolVars, backfillVars, ftsVars, histVars, safeVars, daemonVars,
      remoteVars>>
exceptBackfill ==
    <<resolveVars, sendVars, lockVars, storeVars, ingestVars, dedupVars, mcpVars,
      supVars, poolVars, sshVars, ftsVars, histVars, safeVars, daemonVars, remoteVars>>
exceptFts ==
    <<resolveVars, sendVars, lockVars, storeVars, ingestVars, dedupVars, mcpVars,
      supVars, poolVars, sshVars, backfillVars, histVars, safeVars, daemonVars,
      remoteVars>>
exceptHist ==
    <<resolveVars, sendVars, lockVars, storeVars, ingestVars, dedupVars, mcpVars,
      supVars, poolVars, sshVars, backfillVars, ftsVars, safeVars, daemonVars,
      remoteVars>>
exceptSafe ==
    <<resolveVars, sendVars, lockVars, storeVars, ingestVars, dedupVars, mcpVars,
      supVars, poolVars, sshVars, backfillVars, ftsVars, histVars, daemonVars,
      remoteVars>>
exceptDaemon ==
    <<resolveVars, sendVars, lockVars, storeVars, ingestVars, dedupVars, mcpVars,
      supVars, poolVars, sshVars, backfillVars, ftsVars, histVars, safeVars,
      remoteVars>>
exceptRemote ==
    <<resolveVars, sendVars, lockVars, storeVars, ingestVars, dedupVars, mcpVars,
      supVars, poolVars, sshVars, backfillVars, ftsVars, histVars, safeVars,
      daemonVars>>

----------------------------------------------------------------------------
(* Nullable values *)

Null == <<>>

Some(v) == <<v>>

COALESCE(a, b) == IF a # Null THEN a ELSE b

----------------------------------------------------------------------------
(* Conversation ids *)

JidGroupA == <<"a", "@", "g.us">>
JidGroupB == <<"b", "@", "g.us">>
JidDm == <<"a", "@", "s.whatsapp.net">>
JidStatus == <<"status", "@", "broadcast">>
JidNoAt == <<"a">>
JidTwoAt == <<"a", "@", "b", "@", "g.us">>

Jids == {JidGroupA, JidGroupB, JidDm, JidStatus, JidNoAt, JidTwoAt}

\* String.prototype.indexOf for one token: the first position, 0 when absent
IndexOf(s, t) ==
    IF \E i \in 1..Len(s) : s[i] = t
    THEN CHOOSE i \in 1..Len(s) : s[i] = t /\ \A k \in 1..(i - 1) : s[k] # t
    ELSE 0

EndsWith(s, suf) ==
    /\ Len(suf) <= Len(s)
    /\ SubSeq(s, Len(s) - Len(suf) + 1, Len(s)) = suf

----------------------------------------------------------------------------
(* Constraint policy: config.constraints is absent, or a default mode and a *)
(* mapping kept in insertion order, as a JS object keeps its keys.          *)

Modes == {"full", "read", "none"}

PolicyKeys ==
    {JidGroupA, <<"*", "@", "g.us">>, <<"*", "@", "s.whatsapp.net">>, <<"*">>,
     <<"*", "@", "b", "@", "g.us">>}

MaxChats == 2

ChatEntries == [key : PolicyKeys, mode : Modes]

RECURSIVE ChatMaps(_)
ChatMaps(n) ==
    IF n = 0 THEN {<<>>}
    ELSE LET shorter == ChatMaps(n - 1)
         IN  shorter \cup
             {Append(m, e) : m \in {x \in shorter : Len(x) = n - 1},
                             e \in ChatEntries}

UniqueKeys(m) == \A i, k \in 1..Len(m) : m[i].key = m[k].key => i = k

NoConstraints == [constraints |-> Null]

Policy(d, m) == [constraints |-> Some([default |-> d, chats |-> m])]

PoliciesUpTo(n) ==
    {NoConstraints} \cup
    {Policy(d, m) : d \in Modes, m \in {x \in ChatMaps(n) : UniqueKeys(x)}}

Policies == PoliciesUpTo(MaxChats)

\* chats[key] is defined
HasKey(map, k) == \E i \in 1..Len(map) : map[i].key = k

\* chats[key].mode
ModeOf(map, k) == map[CHOOSE i \in 1..Len(map) : map[i].key = k].mode

\* a bug: the first entry in insertion order that matches, exactly or by wildcard
resolveConstraint_firstMatch(jid, config) ==
    IF config.constraints = Null THEN "none"
    ELSE LET c == config.constraints[1]
             at == IndexOf(jid, "@")
             domain == IF at > 0 THEN SubSeq(jid, at, Len(jid)) ELSE <<>>
             wildcard == <<"*">> \o domain
             hits == {i \in 1..Len(c.chats) : c.chats[i].key \in {jid, wildcard}}
         IN  IF hits # {}
             THEN c.chats[CHOOSE i \in hits : \A k \in hits : i <= k].mode
             ELSE c.default

resolveConstraint(jid, config) ==
    IF config.constraints = Null THEN "none"
    ELSE LET c == config.constraints[1]
             at == IndexOf(jid, "@")
             domain == IF at > 0 THEN SubSeq(jid, at, Len(jid)) ELSE <<>>
             wildcard == <<"*">> \o domain
         IN  IF HasKey(c.chats, jid) THEN ModeOf(c.chats, jid)
             ELSE IF HasKey(c.chats, wildcard) THEN ModeOf(c.chats, wildcard)
             ELSE c.default

\* a bug: only a blocked conversation is refused, a read-only one may be written
assertCanSend_onlyNone(jid, config) ==
    LET mode == resolveConstraint(jid, config)
    IN  IF mode = "none"
        THEN [thrown |-> TRUE, kind |-> "constraint", exitCode |-> 2]
        ELSE [thrown |-> FALSE, kind |-> "none", exitCode |-> 0]

\* the outcome of the guard: whether it throws, and the error it throws
assertCanSend(jid, config) ==
    LET mode == resolveConstraint(jid, config)
    IN  IF mode # "full"
        THEN [thrown |-> TRUE, kind |-> "constraint", exitCode |-> 2]
        ELSE [thrown |-> FALSE, kind |-> "none", exitCode |-> 0]

assertCanManage(jid, config) == assertCanSend(jid, config)

shouldCollect(jid, config) == resolveConstraint(jid, config) # "none"

isStatusOrBroadcast(jid) ==
    jid = JidStatus \/ EndsWith(jid, <<"@", "broadcast">>)

----------------------------------------------------------------------------
(* Idle values of each component, for the specifications that leave it alone *)

ResolveIdle == rJid = JidNoAt /\ rCfg = NoConstraints /\ rOut = "pending"

SendIdle == sendCfg = NoConstraints /\ sockLog = <<>> /\ sendResult = Null

LockIdle ==
    /\ lockFile = Null
    /\ alive = <<>>
    /\ pc = <<>>
    /\ seen = <<>>
    /\ held = <<>>
    /\ lockRes = Null

StoreIdle == messages = {} /\ chats = {} /\ storeOp = "none" /\ storeArg = Null

IngestIdle ==
    /\ listenerConfig = NoConstraints
    /\ diskCfg = NoConstraints
    /\ dedup = <<>>
    /\ contacts = {}
    /\ participants = {}
    /\ forwarded = <<>>
    /\ qOut = Null
    /\ nEvents = 0

DedupIdle ==
    /\ dMap = <<>>
    /\ dMaxSize = 1
    /\ dRes = Null

RemoteIdle ==
    /\ remoteRan = {}

DaemonIdle ==
    /\ started = FALSE

SafeIdle ==
    /\ handlerErrors = <<>>
    /\ escaped = FALSE

HistIdle ==
    /\ histErr = Null
    /\ histRows = Null

FtsIdle ==
    /\ diskFts = FALSE
    /\ dbOpen = Null
    /\ ftsAvailable = Null
    /\ searchRes = Null

BackfillIdle ==
    /\ bfPc = "off"
    /\ bfCount = 0
    /\ totalNew = 0
    /\ bfHandler = FALSE
    /\ bfTimer = FALSE
    /\ bfResolved = FALSE
    /\ bfTimedOut = FALSE
    /\ bfLog = <<>>

SshIdle ==
    /\ sshRetries0 = 0
    /\ sshRetries = 0
    /\ sshPc = "off"
    /\ sshAttempts = 0
    /\ sshLast = Null
    /\ sshOut = Null

PoolIdle ==
    /\ items = <<>>
    /\ concurrency = 1
    /\ fn = <<>>
    /\ nextIndex = 0
    /\ completed = 0
    /\ results = <<>>
    /\ workers = <<>>
    /\ calls = <<>>
    /\ progress = <<>>
    /\ returned = Null

SupIdle ==
    /\ supDaemon = FALSE
    /\ consecutiveFailures = 0
    /\ stopped = FALSE
    /\ sockState = "none"
    /\ creating = FALSE
    /\ reconnectTimer = Null
    /\ lastClose = Null
    /\ fatal = FALSE
    /\ supPc = "off"
    /\ shutLog = <<>>
    /\ credsSeq = 0
    /\ credsSaved = 0
    /\ credsDirty = FALSE
    /\ credsTimer = FALSE
    /\ saving = {}
    /\ flushedAt = Null

McpIdle ==
    /\ mcpIn = Null
    /\ mcpPc = "off"
    /\ mSock = FALSE
    /\ remoteForTools = FALSE
    /\ ownsConnection = FALSE
    /\ mcpLog = <<>>
    /\ mcpRes = Null

----------------------------------------------------------------------------
(* SpecResolve: the constraint engine applied to every drawn input *)

ResolveInit ==
    /\ rJid \in Jids
    /\ rCfg \in Policies
    /\ rOut = "pending"
    /\ SendIdle
    /\ LockIdle
    /\ StoreIdle
    /\ IngestIdle
    /\ DedupIdle
    /\ McpIdle
    /\ SupIdle
    /\ PoolIdle
    /\ SshIdle
    /\ BackfillIdle
    /\ FtsIdle
    /\ HistIdle
    /\ SafeIdle
    /\ DaemonIdle
    /\ RemoteIdle

Resolve ==
    /\ rOut = "pending"
    /\ rOut' = resolveConstraint(rJid, rCfg)
    /\ UNCHANGED <<rJid, rCfg, exceptResolve>>

SpecResolve == ResolveInit /\ [][Resolve]_vars

\* the level the policy assigns, read off the mapping as an unordered set of entries
LevelOf(j, P) ==
    IF P.constraints = Null THEN "none"
    ELSE LET c == P.constraints[1]
             entries == {c.chats[i] : i \in 1..Len(c.chats)}
             at == IndexOf(j, "@")
             suffix == IF at = 0 THEN <<>> ELSE [i \in 1..(Len(j) - at + 1) |-> j[at + i - 1]]
             exact == {e \in entries : e.key = j}
             wild == {e \in entries : e.key = <<"*">> \o suffix}
         IN  IF exact # {} THEN (CHOOSE e \in exact : TRUE).mode
             ELSE IF wild # {} THEN (CHOOSE e \in wild : TRUE).mode
             ELSE c.default

\* every reordering of the mapping's entries
Reorderings(P) ==
    IF P.constraints = Null THEN {P}
    ELSE LET c == P.constraints[1]
             n == Len(c.chats)
         IN  {Policy(c.default, [i \in 1..n |-> c.chats[f[i]]]) :
                 f \in {g \in [1..n -> 1..n] : \A a, b \in 1..n : g[a] = g[b] => a = b}}

\* C3: resolve gives none without a policy, else the exact entry's level, else the
\* level of the wildcard "*" + suffix from the first "@", else the default; and the
\* result is the same for every insertion order of the mapping.
C3_ResolveBySpecificity ==
    rOut # "pending" =>
        /\ rOut = LevelOf(rJid, rCfg)
        /\ \A Q \in Reorderings(rCfg) : resolveConstraint(rJid, Q) = rOut

\* a resolved input where an exact entry, a wildcard entry and the default all differ
C3_Witness ==
    /\ rOut # "pending"
    /\ rCfg.constraints # Null
    /\ rJid = JidGroupA
    /\ HasKey(rCfg.constraints[1].chats, JidGroupA)
    /\ HasKey(rCfg.constraints[1].chats, <<"*", "@", "g.us">>)
    /\ ModeOf(rCfg.constraints[1].chats, JidGroupA) = "read"
    /\ ModeOf(rCfg.constraints[1].chats, <<"*", "@", "g.us">>) = "none"
    /\ rCfg.constraints[1].chats[1].key = <<"*", "@", "g.us">>
    /\ rCfg.constraints[1].default = "full"
    /\ rOut = "read"

----------------------------------------------------------------------------
(* SpecSend: the gated write operations against one transport *)

MaxCalls == 1

SendJids == {JidGroupA, JidGroupB, JidDm}

SendPolicies == PoliciesUpTo(1)

SendInit ==
    /\ sendCfg \in SendPolicies
    /\ sockLog = <<>>
    /\ sendResult = Null
    /\ ResolveIdle
    /\ LockIdle
    /\ StoreIdle
    /\ IngestIdle
    /\ DedupIdle
    /\ McpIdle
    /\ SupIdle
    /\ PoolIdle
    /\ SshIdle
    /\ BackfillIdle
    /\ FtsIdle
    /\ HistIdle
    /\ SafeIdle
    /\ DaemonIdle
    /\ RemoteIdle

\* The shape shared by the write operations: the guard first, then whatever the
\* operation prepares (prepared = FALSE: it threw before reaching the transport),
\* then the transport call.
GatedCall(op, guard, call, jid, prepared) ==
    IF guard.thrown
    THEN /\ sendResult' = Some([op |-> op, jid |-> jid, error |-> guard.kind,
                                exitCode |-> Some(guard.exitCode), transport |-> "none"])
         /\ UNCHANGED <<sendCfg, sockLog>>
    ELSE IF ~prepared
    THEN /\ sendResult' = Some([op |-> op, jid |-> jid, error |-> "io",
                                exitCode |-> Null, transport |-> "none"])
         /\ UNCHANGED <<sendCfg, sockLog>>
    ELSE /\ Len(sockLog) < MaxCalls
         /\ sockLog' = Append(sockLog, [call |-> call, jid |-> jid])
         /\ sendResult' = Some([op |-> op, jid |-> jid, error |-> "none",
                                exitCode |-> Null, transport |-> call])
         /\ UNCHANGED sendCfg

sendText(jid) ==
    /\ GatedCall("sendText", assertCanSend(jid, sendCfg), "sendMessage", jid, TRUE)
    /\ UNCHANGED exceptSend

\* readFileSync(filePath) throws when the file cannot be read
sendMedia(jid, fileReadable) ==
    /\ GatedCall("sendMedia", assertCanSend(jid, sendCfg), "sendMessage", jid, fileReadable)
    /\ UNCHANGED exceptSend

sendReaction(jid) ==
    /\ GatedCall("sendReaction", assertCanSend(jid, sendCfg), "sendMessage", jid, TRUE)
    /\ UNCHANGED exceptSend

sendPoll(jid) ==
    /\ GatedCall("sendPoll", assertCanSend(jid, sendCfg), "sendMessage", jid, TRUE)
    /\ UNCHANGED exceptSend

deleteForEveryone(jid) ==
    /\ GatedCall("deleteForEveryone", assertCanSend(jid, sendCfg), "sendMessage", jid, TRUE)
    /\ UNCHANGED exceptSend

getInviteCode(jid) ==
    /\ GatedCall("getInviteCode", assertCanManage(jid, sendCfg), "groupInviteCode", jid, TRUE)
    /\ UNCHANGED exceptSend

leaveGroup(jid) ==
    /\ GatedCall("leaveGroup", assertCanManage(jid, sendCfg), "groupLeave", jid, TRUE)
    /\ UNCHANGED exceptSend

SendNext ==
    \/ \E j \in SendJids : sendText(j)
    \/ \E j \in SendJids, ok \in BOOLEAN : sendMedia(j, ok)
    \/ \E j \in SendJids : sendReaction(j)
    \/ \E j \in SendJids : sendPoll(j)
    \/ \E j \in SendJids : deleteForEveryone(j)
    \/ \E j \in SendJids : getInviteCode(j)
    \/ \E j \in SendJids : leaveGroup(j)

SpecSend == SendInit /\ [][SendNext]_vars

\* C1: a write operation reaches the transport only for a conversation whose level
\* is full; for a level of read or none it fails with the constraint-violation
\* error carrying exit code 2 and no transport call is made.
C1_WritesNeedFull ==
    /\ \A i \in 1..Len(sockLog) : LevelOf(sockLog[i].jid, sendCfg) = "full"
    /\ sendResult # Null =>
          LET r == sendResult[1]
              level == LevelOf(r.jid, sendCfg)
          IN  /\ r.transport # "none" => level = "full"
              /\ level # "full" =>
                    /\ r.error = "constraint"
                    /\ r.exitCode = Some(2)
                    /\ r.transport = "none"

\* a write refused on a read-only conversation after another write went through
C1_Witness ==
    /\ sendResult # Null
    /\ sendResult[1].error = "constraint"
    /\ LevelOf(sendResult[1].jid, sendCfg) = "read"
    /\ Len(sockLog) > 0

----------------------------------------------------------------------------
(* The instance lock.  lockFile is the content of the PID file: Null when   *)
(* the file does not exist, else the pid written in it.                     *)

NumProcs == 3

Pids == 1..NumProcs

\* process.kill(pid, 0) succeeds
isProcessAlive(pid) == alive[pid]

LockInit ==
    /\ lockFile = Null
    /\ alive = [p \in Pids |-> TRUE]
    /\ pc = [p \in Pids |-> "idle"]
    /\ seen = [p \in Pids |-> Null]
    /\ held = [p \in Pids |-> FALSE]
    /\ lockRes = Null
    /\ ResolveIdle
    /\ SendIdle
    /\ StoreIdle
    /\ IngestIdle
    /\ DedupIdle
    /\ McpIdle
    /\ SupIdle
    /\ PoolIdle
    /\ SshIdle
    /\ BackfillIdle
    /\ FtsIdle
    /\ HistIdle
    /\ SafeIdle
    /\ DaemonIdle
    /\ RemoteIdle

\* a process ends without running releaseLock (a crash, kill -9)
Die(p) ==
    /\ alive[p]
    /\ alive' = [alive EXCEPT ![p] = FALSE]
    /\ pc' = [pc EXCEPT ![p] = "idle"]
    /\ held' = [held EXCEPT ![p] = FALSE]
    /\ UNCHANGED <<lockFile, seen, lockRes, exceptLock>>

(* Each call as one step: the whole function runs with no other process     *)
(* touching the file in between.                                            *)

\* isLocked(): what it returns, and the file it leaves
isLocked(file) ==
    IF file = Null THEN [locked |-> FALSE, pid |-> Null, file |-> file]
    ELSE IF isProcessAlive(file[1])
    THEN [locked |-> TRUE, pid |-> file, file |-> file]
    ELSE [locked |-> FALSE, pid |-> Null, file |-> Null]

\* a bug: any existing record counts as a live lock, a stale one is never discarded
acquireLock_noStaleCheck(file, self) ==
    IF file # Null
    THEN [kind |-> "conflict", holder |-> file, file |-> file]
    ELSE [kind |-> "ok", holder |-> Null, file |-> Some(self)]

\* acquireLock() run by process self: how it ends, the pid its error names, the file
acquireLock(file, self) ==
    LET l == isLocked(file)
    IN  IF l.locked
        THEN [kind |-> "conflict", holder |-> l.pid, file |-> l.file]
        ELSE [kind |-> "ok", holder |-> Null, file |-> Some(self)]

\* releaseLock() run by process self: the file it leaves
releaseLock(file, self) ==
    IF file # Null /\ file[1] = self THEN Null ELSE file

AcquireCall(p) ==
    /\ alive[p]
    /\ LET r == acquireLock(lockFile, p)
       IN  /\ lockFile' = r.file
           /\ held' = [held EXCEPT ![p] = (@ \/ r.kind = "ok")]
           /\ lockRes' = Some([caller |-> p, kind |-> r.kind, holder |-> r.holder,
                               before |-> lockFile,
                               beforeLive |-> (lockFile # Null /\ alive[lockFile[1]]),
                               after |-> r.file])
    /\ UNCHANGED <<alive, pc, seen, exceptLock>>

IsLockedCall(p) ==
    /\ alive[p]
    /\ lockFile' = isLocked(lockFile).file
    /\ UNCHANGED <<alive, pc, seen, held, lockRes, exceptLock>>

ReleaseCall(p) ==
    /\ alive[p]
    /\ lockFile' = releaseLock(lockFile, p)
    /\ held' = [held EXCEPT ![p] = FALSE]
    /\ UNCHANGED <<alive, pc, seen, lockRes, exceptLock>>

LockSeqNext ==
    \/ \E p \in Pids : AcquireCall(p)
    \/ \E p \in Pids : IsLockedCall(p)
    \/ \E p \in Pids : ReleaseCall(p)
    \/ \E p \in Pids : Die(p)

SpecLockSeq == LockInit /\ [][LockSeqNext]_vars

\* C7: acquireLock fails with a conflict naming the holder and leaves the record
\* alone whenever a record exists and its process is alive; when the record is stale
\* or absent it succeeds and the record then holds the caller's pid.
C7_AcquireOutcome ==
    lockRes # Null =>
        LET r == lockRes[1]
        IN  /\ (r.before # Null /\ r.beforeLive) =>
                  r.kind = "conflict" /\ r.holder = r.before /\ r.after = r.before
            /\ (r.before = Null \/ ~r.beforeLive) =>
                  r.kind = "ok" /\ r.after = Some(r.caller)

\* an acquire that found the record of a dead process and took the lock over
C7_Witness ==
    /\ lockRes # Null
    /\ lockRes[1].before # Null
    /\ ~lockRes[1].beforeLive
    /\ lockRes[1].kind = "ok"
    /\ lockFile = Some(lockRes[1].caller)

\* an acquire refused because a live process holds the lock
C7_WitnessConflict ==
    /\ lockRes # Null
    /\ lockRes[1].kind = "conflict"
    /\ lockRes[1].holder # Some(lockRes[1].caller)

(* Each file-system call as one step: existsSync, readFileSync, the liveness  *)
(* probe, unlinkSync and writeFileSync of different processes interleave.     *)
(* op is "acq" for acquireLock (which runs isLocked first) and "isl" for a    *)
(* bare isLocked.                                                             *)

CallOps == {"acq", "isl"}

\* the call ends for process p, by returning or by throwing
Return(p) == pc' = [pc EXCEPT ![p] = "idle"]

\* existsSync(LOCK_PATH), entering isLocked
ExistsStep(p, op) ==
    /\ alive[p] /\ pc[p] = "idle"
    /\ IF lockFile # Null THEN pc' = [pc EXCEPT ![p] = op \o "_read"]
       ELSE IF op = "acq" THEN pc' = [pc EXCEPT ![p] = "acq_write"]
       ELSE Return(p)
    /\ UNCHANGED <<lockFile, alive, seen, held, lockRes, exceptLock>>

\* readFileSync(LOCK_PATH): throws ENOENT when the file is gone by now
ReadStep(p, op) ==
    /\ alive[p] /\ pc[p] = op \o "_read"
    /\ IF lockFile = Null
       THEN Return(p) /\ UNCHANGED seen
       ELSE /\ seen' = [seen EXCEPT ![p] = lockFile]
            /\ pc' = [pc EXCEPT ![p] = op \o "_alive"]
    /\ UNCHANGED <<lockFile, alive, held, lockRes, exceptLock>>

\* isProcessAlive(existingPid): locked (acquireLock throws the conflict), or stale
AliveStep(p, op) ==
    /\ alive[p] /\ pc[p] = op \o "_alive"
    /\ IF isProcessAlive(seen[p][1])
       THEN Return(p)
       ELSE pc' = [pc EXCEPT ![p] = op \o "_unlink"]
    /\ UNCHANGED <<lockFile, alive, seen, held, lockRes, exceptLock>>

\* unlinkSync(LOCK_PATH) of the record found stale: throws ENOENT when it is gone
UnlinkStep(p, op) ==
    /\ alive[p] /\ pc[p] = op \o "_unlink"
    /\ IF lockFile = Null THEN Return(p) /\ UNCHANGED lockFile
       ELSE /\ lockFile' = Null
            /\ IF op = "acq" THEN pc' = [pc EXCEPT ![p] = "acq_write"] ELSE Return(p)
    /\ UNCHANGED <<alive, seen, held, lockRes, exceptLock>>

\* writeFileSync(LOCK_PATH, String(process.pid)); acquireLock returns
WriteStep(p) ==
    /\ alive[p] /\ pc[p] = "acq_write"
    /\ lockFile' = Some(p)
    /\ held' = [held EXCEPT ![p] = TRUE]
    /\ Return(p)
    /\ UNCHANGED <<alive, seen, lockRes, exceptLock>>

\* releaseLock: existsSync(LOCK_PATH)
RelExistsStep(p) ==
    /\ alive[p] /\ pc[p] = "idle"
    /\ held' = [held EXCEPT ![p] = FALSE]
    /\ IF lockFile = Null THEN Return(p) ELSE pc' = [pc EXCEPT ![p] = "rel_read"]
    /\ UNCHANGED <<lockFile, alive, seen, lockRes, exceptLock>>

\* releaseLock: readFileSync and the comparison with process.pid
RelReadStep(p) ==
    /\ alive[p] /\ pc[p] = "rel_read"
    /\ IF lockFile = Null
       THEN Return(p) /\ UNCHANGED seen
       ELSE /\ seen' = [seen EXCEPT ![p] = lockFile]
            /\ IF lockFile[1] = p THEN pc' = [pc EXCEPT ![p] = "rel_unlink"] ELSE Return(p)
    /\ UNCHANGED <<lockFile, alive, held, lockRes, exceptLock>>

\* releaseLock: unlinkSync; an ENOENT is swallowed by the catch
RelUnlinkStep(p) ==
    /\ alive[p] /\ pc[p] = "rel_unlink"
    /\ lockFile' = Null
    /\ Return(p)
    /\ UNCHANGED <<alive, seen, held, lockRes, exceptLock>>

LockNext ==
    \/ \E p \in Pids, op \in CallOps : ExistsStep(p, op)
    \/ \E p \in Pids, op \in CallOps : ReadStep(p, op)
    \/ \E p \in Pids, op \in CallOps : AliveStep(p, op)
    \/ \E p \in Pids, op \in CallOps : UnlinkStep(p, op)
    \/ \E p \in Pids : WriteStep(p)
    \/ \E p \in Pids : RelExistsStep(p)
    \/ \E p \in Pids : RelReadStep(p)
    \/ \E p \in Pids : RelUnlinkStep(p)
    \/ \E p \in Pids : Die(p)

SpecLock == LockInit /\ [][LockNext]_vars

\* C5: two live processes never both hold the lock (acquireLock has returned to
\* each and neither has released since).
C5_MutualExclusion ==
    \A p, q \in Pids : (alive[p] /\ alive[q] /\ held[p] /\ held[q]) => p = q

\* the process whose step this is removes the record
Removes(p) ==
    /\ pc[p] \in {"acq_unlink", "isl_unlink", "rel_unlink"}
    /\ pc'[p] # pc[p]
    /\ lockFile # Null
    /\ lockFile' = Null

\* C6: no step of a process removes a record whose recorded pid is a live process
\* other than that process.
C6_NeverRemovesAnothersLock ==
    [][\A p \in Pids : Removes(p) => (lockFile[1] = p \/ ~alive[lockFile[1]])]_vars

----------------------------------------------------------------------------
(* The store.  A table is the set of its rows; the primary key is enforced  *)
(* by the statements (ON CONFLICT), not by the representation.  A message   *)
(* row carries id, chat_jid, body, type, media_path, timestamp, raw and the *)
(* rowid SQLite gives it on insertion; a chat row carries jid, name, type,  *)
(* participant_count, description and last_message_at.                      *)

MsgCols(ids, jids, bodies, types, paths, stamps, raws) ==
    [id : ids, chat_jid : jids, body : bodies, type : types, media_path : paths,
     timestamp : stamps, raw : raws]

ChatCols(jids, names, types, counts, descs, stamps) ==
    [jid : jids, name : names, type : types, participant_count : counts,
     description : descs, last_message_at : stamps]

\* the rowid of the next inserted row
NextRowid(table) ==
    IF table = {} THEN 1
    ELSE 1 + (CHOOSE n \in {e.rowid : e \in table} : \A e \in table : e.rowid <= n)

MAX(a, b) == IF a >= b THEN a ELSE b

\* a bug: a plain INSERT, with no ON CONFLICT(id) clause and no primary key
upsertMessage_alwaysInsert(table, row) ==
    table \cup
    {[id |-> row.id, chat_jid |-> row.chat_jid, body |-> row.body, type |-> row.type,
      media_path |-> row.media_path, timestamp |-> row.timestamp, raw |-> row.raw,
      rowid |-> NextRowid(table)]}

\* a bug: body = excluded.body, without COALESCE
upsertMessage_overwriteBody(table, row) ==
    IF \E e \in table : e.id = row.id
    THEN {IF e.id = row.id
          THEN [e EXCEPT !.body = row.body,
                         !.media_path = COALESCE(row.media_path, e.media_path),
                         !.raw = COALESCE(row.raw, e.raw)]
          ELSE e : e \in table}
    ELSE upsertMessage_alwaysInsert(table, row)

\* INSERT INTO messages ... ON CONFLICT(id) DO UPDATE SET body, media_path, raw
upsertMessage(table, row) ==
    IF \E e \in table : e.id = row.id
    THEN {IF e.id = row.id
          THEN [e EXCEPT !.body = COALESCE(row.body, e.body),
                         !.media_path = COALESCE(row.media_path, e.media_path),
                         !.raw = COALESCE(row.raw, e.raw)]
          ELSE e : e \in table}
    ELSE table \cup
         {[id |-> row.id, chat_jid |-> row.chat_jid, body |-> row.body,
           type |-> row.type, media_path |-> row.media_path,
           timestamp |-> row.timestamp, raw |-> row.raw, rowid |-> NextRowid(table)]}

\* a bug: the bulk statement sets body = excluded.body, without COALESCE
bulkUpsertMessages_overwriteBody(table, rows) ==
    LET loop[i \in 0..Len(rows)] ==
            IF i = 0 THEN table ELSE upsertMessage_overwriteBody(loop[i - 1], rows[i])
    IN  loop[Len(rows)]

\* the statement run for each row of the array, in order, in one transaction
RECURSIVE bulkUpsertMessages(_, _)
bulkUpsertMessages(table, rows) ==
    IF rows = <<>> THEN table
    ELSE bulkUpsertMessages(upsertMessage(table, Head(rows)), Tail(rows))

\* a bug: last_message_at = COALESCE(excluded.last_message_at, chats.last_message_at)
upsertChat_lastWins(table, row) ==
    IF \E e \in table : e.jid = row.jid
    THEN {IF e.jid = row.jid
          THEN [e EXCEPT !.name = COALESCE(row.name, e.name),
                         !.participant_count =
                             COALESCE(row.participant_count, e.participant_count),
                         !.description = COALESCE(row.description, e.description),
                         !.last_message_at =
                             COALESCE(row.last_message_at, e.last_message_at)]
          ELSE e : e \in table}
    ELSE table \cup {row}

\* INSERT INTO chats ... ON CONFLICT(jid) DO UPDATE SET name, participant_count,
\* description, last_message_at = MAX(COALESCE(new, 0), COALESCE(old, 0))
upsertChat(table, row) ==
    IF \E e \in table : e.jid = row.jid
    THEN {IF e.jid = row.jid
          THEN [e EXCEPT !.name = COALESCE(row.name, e.name),
                         !.participant_count =
                             COALESCE(row.participant_count, e.participant_count),
                         !.description = COALESCE(row.description, e.description),
                         !.last_message_at =
                             Some(MAX(COALESCE(row.last_message_at, Some(0))[1],
                                      COALESCE(e.last_message_at, Some(0))[1]))]
          ELSE e : e \in table}
    ELSE table \cup {row}

RECURSIVE bulkUpsertChats(_, _)
bulkUpsertChats(table, rows) ==
    IF rows = <<>> THEN table
    ELSE bulkUpsertChats(upsertChat(table, Head(rows)), Tail(rows))

\* the arrays of at most n rows
RECURSIVE RowBatches(_, _)
RowBatches(rows, n) ==
    IF n = 0 THEN {<<>>}
    ELSE LET shorter == RowBatches(rows, n - 1)
         IN  shorter \cup
             {Append(b, r) : b \in {x \in shorter : Len(x) = n - 1}, r \in rows}

MaxBulk == 2

----------------------------------------------------------------------------
(* SpecMessages: single-row and bulk upserts of messages *)

MsgIds == {<<"m1">>, <<"m2">>}

MsgArgs ==
    MsgCols(MsgIds, {JidGroupA}, {Null, Some("b1"), Some("b2")}, {"text", "image"},
            {Null, Some("p1")}, {1}, {Some("r")})

\* the rows the bulk path is given: both ids, null and non-null bodies and paths
MsgBulkArgs == {r \in MsgArgs : r.type = "text" /\ r.body # Some("b2")}

MessagesInit ==
    /\ messages = {}
    /\ chats = {}
    /\ storeOp = "none"
    /\ storeArg = Null
    /\ ResolveIdle
    /\ SendIdle
    /\ LockIdle
    /\ IngestIdle
    /\ DedupIdle
    /\ McpIdle
    /\ SupIdle
    /\ PoolIdle
    /\ SshIdle
    /\ BackfillIdle
    /\ FtsIdle
    /\ HistIdle
    /\ SafeIdle
    /\ DaemonIdle
    /\ RemoteIdle

UpsertMessage(row) ==
    /\ messages' = upsertMessage(messages, row)
    /\ storeOp' = "upsertMessage"
    /\ storeArg' = Some(row)
    /\ UNCHANGED <<chats, exceptStore>>

BulkUpsertMessages(rows) ==
    /\ messages' = (IF rows = <<>> THEN messages ELSE bulkUpsertMessages(messages, rows))
    /\ storeOp' = "bulkUpsertMessages"
    /\ storeArg' = Null
    /\ UNCHANGED <<chats, exceptStore>>

MessagesNext ==
    \/ \E row \in MsgArgs : UpsertMessage(row)
    \/ \E rows \in RowBatches(MsgBulkArgs, MaxBulk) : BulkUpsertMessages(rows)

SpecMessages == MessagesInit /\ [][MessagesNext]_vars

\* the stored row of a message id
MsgRow(table, id) == CHOOSE e \in table : e.id = id

\* C8: there is never more than one row for an id; no upsert turns a stored non-null
\* field into null; and a single upsert of an existing id with a null body and a
\* non-null media path leaves the body as it was and sets the media path.
C8_UpsertNeverErases ==
    [][/\ \A id \in MsgIds : Cardinality({e \in messages' : e.id = id}) <= 1
       /\ \A e \in messages : \E n \in messages' :
             /\ n.id = e.id
             /\ e.body # Null => n.body # Null
             /\ e.media_path # Null => n.media_path # Null
             /\ e.raw # Null => n.raw # Null
       /\ \A e \in messages :
             (/\ storeArg' # Null
              /\ storeArg'[1].id = e.id
              /\ storeArg'[1].body = Null
              /\ storeArg'[1].media_path # Null) =>
                 /\ MsgRow(messages', e.id).body = e.body
                 /\ MsgRow(messages', e.id).media_path = storeArg'[1].media_path
      ]_vars

\* a second upsert of an id, with a null body and a media path, has left the first
\* upsert's body beside the new media path
C8_Witness ==
    /\ storeOp = "upsertMessage"
    /\ storeArg[1].body = Null
    /\ storeArg[1].media_path = Some("p1")
    /\ \E e \in messages :
          e.id = storeArg[1].id /\ e.body = Some("b1") /\ e.media_path = Some("p1")

\* C9 (messages): after a single upsert of an existing id, every non-key field is the
\* new value when that is non-null and the old value otherwise.
C9_EveryFieldTakesNewIfNonNull ==
    [][\A e \in messages :
          (storeArg' # Null /\ storeArg'[1].id = e.id) =>
              LET new == storeArg'[1]
                  n == MsgRow(messages', e.id)
              IN  /\ n.body = COALESCE(new.body, e.body)
                  /\ n.media_path = COALESCE(new.media_path, e.media_path)
                  /\ n.raw = COALESCE(new.raw, e.raw)
                  /\ n.chat_jid = new.chat_jid
                  /\ n.type = new.type
                  /\ n.timestamp = new.timestamp
      ]_vars

----------------------------------------------------------------------------
(* SpecChats: single-row and bulk upserts of chats *)

ChatArgs ==
    ChatCols({JidGroupA, JidDm}, {Null, Some("n1")}, {"group", "dm"}, {Null}, {Null},
             {Null, Some(1), Some(2)})

ChatBulkArgs == {r \in ChatArgs : r.name = Null /\ r.type = "group"}

ChatsInit ==
    /\ messages = {}
    /\ chats = {}
    /\ storeOp = "none"
    /\ storeArg = Null
    /\ ResolveIdle
    /\ SendIdle
    /\ LockIdle
    /\ IngestIdle
    /\ DedupIdle
    /\ McpIdle
    /\ SupIdle
    /\ PoolIdle
    /\ SshIdle
    /\ BackfillIdle
    /\ FtsIdle
    /\ HistIdle
    /\ SafeIdle
    /\ DaemonIdle
    /\ RemoteIdle

UpsertChat(row) ==
    /\ chats' = upsertChat(chats, row)
    /\ storeOp' = "upsertChat"
    /\ storeArg' = Some(row)
    /\ UNCHANGED <<messages, exceptStore>>

BulkUpsertChats(rows) ==
    /\ chats' = (IF rows = <<>> THEN chats ELSE bulkUpsertChats(chats, rows))
    /\ storeOp' = "bulkUpsertChats"
    /\ storeArg' = Null
    /\ UNCHANGED <<messages, exceptStore>>

ChatsNext ==
    \/ \E row \in ChatArgs : UpsertChat(row)
    \/ \E rows \in RowBatches(ChatBulkArgs, MaxBulk) : BulkUpsertChats(rows)

SpecChats == ChatsInit /\ [][ChatsNext]_vars

\* a <= b for nullable timestamps, no timestamp being below every timestamp
StampLeq(a, b) == a = Null \/ (b # Null /\ a[1] <= b[1])

\* C10: no upsertChat or bulkUpsertChats step lowers the stored last-activity
\* timestamp of a conversation, whatever timestamp (older, or none) it carries.
C10_LastActivityMonotonic ==
    [][\A e \in chats : \E n \in chats' :
          n.jid = e.jid /\ StampLeq(e.last_message_at, n.last_message_at)]_vars

\* an upsert carrying an older timestamp has left the newer one in place
C10_Witness ==
    /\ storeOp = "upsertChat"
    /\ storeArg[1].last_message_at = Some(1)
    /\ \E e \in chats : e.jid = storeArg[1].jid /\ e.last_message_at = Some(2)

\* an upsert carrying no timestamp has left the stored one in place
C10_WitnessNull ==
    /\ storeOp = "upsertChat"
    /\ storeArg[1].last_message_at = Null
    /\ \E e \in chats : e.jid = storeArg[1].jid /\ e.last_message_at = Some(2)

----------------------------------------------------------------------------
(* The rest of the store the listener writes to.  A contact row carries jid,   *)
(* phone, push_name, saved_name and is_business; a group_participants row      *)
(* carries group_jid, participant_jid, is_admin and is_super_admin.            *)

\* a bug: the row is removed, as deleteMessage does
markMessageDeleted_remove(table, id) == {e \in table : e.id # id}

\* UPDATE messages SET body = NULL, type = 'deleted', raw = NULL WHERE id = ?
markMessageDeleted(table, id) ==
    {IF e.id = id THEN [e EXCEPT !.body = Null, !.type = "deleted", !.raw = Null]
     ELSE e : e \in table}

\* INSERT INTO contacts ... ON CONFLICT(jid) DO UPDATE SET every column by COALESCE
upsertContact(table, row) ==
    IF \E e \in table : e.jid = row.jid
    THEN {IF e.jid = row.jid
          THEN [e EXCEPT !.phone = COALESCE(row.phone, e.phone),
                         !.push_name = COALESCE(row.push_name, e.push_name),
                         !.saved_name = COALESCE(row.saved_name, e.saved_name),
                         !.is_business = row.is_business]
          ELSE e : e \in table}
    ELSE table \cup {row}

RECURSIVE bulkUpsertContacts(_, _)
bulkUpsertContacts(table, rows) ==
    IF rows = <<>> THEN table
    ELSE bulkUpsertContacts(upsertContact(table, Head(rows)), Tail(rows))

\* DELETE FROM group_participants WHERE group_jid = ?, then one INSERT per
\* participant, in one transaction
upsertGroupParticipants(table, groupJid, list) ==
    {e \in table : e.group_jid # groupJid} \cup
    {[group_jid |-> groupJid, participant_jid |-> list[i].jid,
      is_admin |-> list[i].isAdmin, is_super_admin |-> list[i].isSuperAdmin] :
        i \in 1..Len(list)}

----------------------------------------------------------------------------
(* The deduplicator: a Map in insertion order, as a sequence of its keys *)

\* a bug: no key is ever found
FifoDedup_has_never(map, key) == FALSE

FifoDedup_has(map, key) == \E i \in 1..Len(map) : map[i] = key

\* a bug: the newest key is evicted instead of the oldest
FifoDedup_add_evictNewest(map, key, maxSize) ==
    LET kept == IF Len(map) >= maxSize THEN SubSeq(map, 1, Len(map) - 1) ELSE map
    IN  IF FifoDedup_has(kept, key) THEN kept ELSE Append(kept, key)

\* add: once the map holds maxSize keys the first one is deleted, whether or not
\* the key is already in the map; Map.set leaves a key that is there in its place
FifoDedup_add(map, key, maxSize) ==
    LET kept == IF Len(map) >= maxSize THEN Tail(map) ELSE map
    IN  IF FifoDedup_has(kept, key) THEN kept ELSE Append(kept, key)

\* new FifoDedup(10000) in startListener
ListenerDedupSize == 10000

----------------------------------------------------------------------------
(* The listener.  A WAMessage is given by its key (remoteJid, id, fromMe,      *)
(* participant), its pushName, its messageTimestamp and the text and type      *)
(* that extractText and extractMessageType find in its content.                *)

WAMessages(jids, ids, names, bodies, stamps) ==
    [remoteJid : jids, id : ids, fromMe : {FALSE}, participant : {Null},
     pushName : names, body : bodies, type : {"text"}, messageTimestamp : stamps]

parseMessage(msg) ==
    IF msg.remoteJid = Null THEN Null
    ELSE Some([id |-> msg.id,
               chatJid |-> msg.remoteJid[1],
               senderJid |-> IF msg.participant # Null THEN msg.participant
                             ELSE IF msg.fromMe THEN Null ELSE msg.remoteJid,
               senderName |-> msg.pushName,
               body |-> msg.body,
               type |-> msg.type,
               timestamp |-> msg.messageTimestamp])

\* media_path is null in every row the listener builds; raw is the serialized message
parsedToRow(parsed) ==
    [id |-> parsed.id, chat_jid |-> parsed.chatJid, body |-> parsed.body,
     type |-> parsed.type, media_path |-> Null, timestamp |-> parsed.timestamp,
     raw |-> Some("r")]

\* jid.split("@")[0]
PhoneOf(jid) ==
    IF IndexOf(jid, "@") = 0 THEN jid ELSE SubSeq(jid, 1, IndexOf(jid, "@") - 1)

\* jid.endsWith("@g.us") ? "group" : "dm"
ChatTypeOf(jid) == IF EndsWith(jid, <<"@", "g.us">>) THEN "group" ELSE "dm"

\* what an event handler reads and writes
ListenerState ==
    [messages |-> messages, chats |-> chats, contacts |-> contacts,
     participants |-> participants, dedup |-> dedup, forwarded |-> forwarded]

MaxEvents == 2

\* an opt-in policy that allows one group, and an open policy
ListenerPolicies ==
    {Policy("none", <<[key |-> JidGroupA, mode |-> "full"]>>), Policy("full", <<>>)}

ListenerInit ==
    /\ listenerConfig \in ListenerPolicies
    /\ diskCfg = listenerConfig
    /\ dedup = <<>>
    /\ contacts = {}
    /\ participants = {}
    /\ forwarded = <<>>
    /\ qOut = Null
    /\ nEvents = 0
    /\ ResolveIdle
    /\ SendIdle
    /\ LockIdle
    /\ StoreIdle
    /\ DedupIdle
    /\ McpIdle
    /\ SupIdle
    /\ PoolIdle
    /\ SshIdle
    /\ BackfillIdle
    /\ FtsIdle
    /\ HistIdle
    /\ SafeIdle
    /\ DaemonIdle
    /\ RemoteIdle

\* one event handled: the handler's writes, and any pending query response is gone
Handled(st) ==
    /\ nEvents < MaxEvents
    /\ nEvents' = nEvents + 1
    /\ messages' = st.messages
    /\ chats' = st.chats
    /\ contacts' = st.contacts
    /\ participants' = st.participants
    /\ dedup' = st.dedup
    /\ forwarded' = st.forwarded
    /\ qOut' = Null
    /\ UNCHANGED <<listenerConfig, diskCfg, exceptIngest>>

\* the "messages.upsert" handler; opts.onMessage is set
MessagesUpsert(batch, type) ==
    LET st == ListenerState
        cfg == listenerConfig
        loop[i \in 0..Len(batch)] ==
            IF i = 0 THEN st
            ELSE LET s == loop[i - 1]
                     msg == batch[i]
                 IN  IF msg.remoteJid = Null \/ isStatusOrBroadcast(msg.remoteJid[1])
                     THEN s
                     ELSE IF ~shouldCollect(msg.remoteJid[1], cfg) THEN s
                     ELSE IF FifoDedup_has(s.dedup, <<msg.remoteJid[1], msg.id>>) THEN s
                     ELSE LET jid == msg.remoteJid[1]
                              parsed == parseMessage(msg)[1]
                          IN  [s EXCEPT
                                !.dedup = FifoDedup_add(s.dedup, <<jid, msg.id>>,
                                                        ListenerDedupSize),
                                !.messages = upsertMessage(s.messages, parsedToRow(parsed)),
                                !.chats = upsertChat(s.chats,
                                    [jid |-> jid, name |-> Null, type |-> ChatTypeOf(jid),
                                     participant_count |-> Null, description |-> Null,
                                     last_message_at |-> Some(parsed.timestamp)]),
                                !.contacts =
                                    IF parsed.senderJid # Null /\ parsed.senderName # Null
                                    THEN upsertContact(s.contacts,
                                            [jid |-> parsed.senderJid[1],
                                             phone |-> Some(PhoneOf(parsed.senderJid[1])),
                                             push_name |-> parsed.senderName,
                                             saved_name |-> Null, is_business |-> 0])
                                    ELSE s.contacts,
                                !.forwarded =
                                    IF type = "notify" THEN Append(s.forwarded, parsed.id)
                                    ELSE s.forwarded]
    IN  Handled(loop[Len(batch)])

\* the "messages.update" handler; an update carries key.remoteJid, key.id and whether
\* it is a revocation (messageStubType 1, or a null message)
MessagesUpdate(updates) ==
    LET st == ListenerState
        cfg == listenerConfig
        loop[i \in 0..Len(updates)] ==
            IF i = 0 THEN st
            ELSE LET s == loop[i - 1]
                     update == updates[i]
                 IN  IF update.remoteJid = Null \/ isStatusOrBroadcast(update.remoteJid[1])
                     THEN s
                     ELSE IF ~shouldCollect(update.remoteJid[1], cfg) THEN s
                     ELSE IF update.revoked /\ update.id # Null
                     THEN [s EXCEPT !.messages = markMessageDeleted(s.messages, update.id[1])]
                     ELSE s
    IN  Handled(loop[Len(updates)])

\* `reaction:${reactionKey?.id || key.id}:${reaction.text || ""}`
ReactionId(r) ==
    <<"reaction", ":">> \o COALESCE(r.reactionKeyId, Some(r.id)) [1] \o <<":">> \o
    (IF r.text = Null THEN <<>> ELSE r.text)

\* the "messages.reaction" handler; a reaction carries key.remoteJid, key.id,
\* reaction.key.id, reaction.text and the second of reaction.senderTimestampMs
MessagesReaction(reactions) ==
    LET st == ListenerState
        cfg == listenerConfig
        loop[i \in 0..Len(reactions)] ==
            IF i = 0 THEN st
            ELSE LET s == loop[i - 1]
                     r == reactions[i]
                 IN  IF r.remoteJid = Null \/ isStatusOrBroadcast(r.remoteJid[1]) THEN s
                     ELSE IF ~shouldCollect(r.remoteJid[1], cfg) THEN s
                     ELSE [s EXCEPT !.messages = upsertMessage(s.messages,
                              [id |-> ReactionId(r), chat_jid |-> r.remoteJid[1],
                               body |-> r.text, type |-> "reaction", media_path |-> Null,
                               timestamp |-> r.timestamp, raw |-> Some("r")])]
    IN  Handled(loop[Len(reactions)])

\* the row "chats.upsert", "chats.update" and the history batch build from a chat:
\* name is chat.name || chat.subject || null, and a zero timestamp counts as none
ChatRowOf(chat) ==
    [jid |-> chat.id[1], name |-> chat.name, type |-> ChatTypeOf(chat.id[1]),
     participant_count |-> Null, description |-> Null,
     last_message_at |-> IF chat.conversationTimestamp = Some(0) THEN Null
                         ELSE chat.conversationTimestamp]

\* the "chats.upsert" handler, and the "chats.update" handler, which has the same body
ChatsUpsert(batch) ==
    LET st == ListenerState
        cfg == listenerConfig
        loop[i \in 0..Len(batch)] ==
            IF i = 0 THEN st
            ELSE LET s == loop[i - 1]
                     chat == batch[i]
                 IN  IF chat.id = Null \/ isStatusOrBroadcast(chat.id[1]) THEN s
                     ELSE IF ~shouldCollect(chat.id[1], cfg) THEN s
                     ELSE [s EXCEPT !.chats = upsertChat(s.chats, ChatRowOf(chat))]
    IN  Handled(loop[Len(batch)])

ChatsUpdate(updates) == ChatsUpsert(updates)

\* the "groups.upsert" handler; a group carries id, subject, desc and, when the
\* metadata has them, participants, each with id and admin (null, "admin", "superadmin")
GroupsUpsert(groups) ==
    LET st == ListenerState
        cfg == listenerConfig
        loop[i \in 0..Len(groups)] ==
            IF i = 0 THEN st
            ELSE LET s == loop[i - 1]
                     group == groups[i]
                 IN  IF group.id = Null \/ ~shouldCollect(group.id[1], cfg) THEN s
                     ELSE [s EXCEPT
                            !.chats = upsertChat(s.chats,
                                [jid |-> group.id[1], name |-> group.subject,
                                 type |-> "group",
                                 participant_count |->
                                     IF group.participants = Null
                                        \/ Len(group.participants[1]) = 0
                                     THEN Null
                                     ELSE Some(Len(group.participants[1])),
                                 description |-> group.desc, last_message_at |-> Null]),
                            !.participants =
                                IF group.participants = Null THEN s.participants
                                ELSE upsertGroupParticipants(s.participants, group.id[1],
                                        [k \in 1..Len(group.participants[1]) |->
                                            LET p == group.participants[1][k]
                                            IN  [jid |-> p.id,
                                                 isAdmin |-> p.admin \in
                                                     {Some("admin"), Some("superadmin")},
                                                 isSuperAdmin |->
                                                     p.admin = Some("superadmin")]])]
    IN  Handled(loop[Len(groups)])

\* the "group-participants.update" handler: the change is logged when the group is
\* collected, and nothing is stored
GroupParticipantsUpdate(id, changed, action) == Handled(ListenerState)

\* the "groups.update" handler
GroupsUpdate(updates) ==
    LET st == ListenerState
        cfg == listenerConfig
        loop[i \in 0..Len(updates)] ==
            IF i = 0 THEN st
            ELSE LET s == loop[i - 1]
                     update == updates[i]
                 IN  IF update.id = Null \/ ~shouldCollect(update.id[1], cfg) THEN s
                     ELSE [s EXCEPT !.chats = upsertChat(s.chats,
                              [jid |-> update.id[1], name |-> update.subject,
                               type |-> "group", participant_count |-> Null,
                               description |-> update.desc, last_message_at |-> Null])]
    IN  Handled(loop[Len(updates)])

\* array.filter(keep), for the arrays of the history batch
RECURSIVE Filter(_, _)
Filter(seq, keep) ==
    IF seq = <<>> THEN <<>>
    ELSE (IF Head(seq) \in keep THEN <<Head(seq)>> ELSE <<>>) \o Filter(Tail(seq), keep)

\* the rows the "messaging-history.set" handler builds from a batch: the chats that
\* pass the gates, the contacts that have an id, the messages that pass the gates; a
\* history contact carries id, notify and name
HistoryRows(hMessages, hChats, hContacts, cfg) ==
    LET keptChats ==
            Filter(hChats, {c \in {hChats[i] : i \in 1..Len(hChats)} :
                               /\ c.id # Null
                               /\ ~isStatusOrBroadcast(c.id[1])
                               /\ shouldCollect(c.id[1], cfg)})
        keptContacts ==
            Filter(hContacts, {c \in {hContacts[i] : i \in 1..Len(hContacts)} :
                                  c.id # Null})
        keptMessages ==
            Filter(hMessages, {m \in {hMessages[i] : i \in 1..Len(hMessages)} :
                                  /\ m.remoteJid # Null
                                  /\ ~isStatusOrBroadcast(m.remoteJid[1])
                                  /\ shouldCollect(m.remoteJid[1], cfg)})
    IN  [chatRows |-> [i \in 1..Len(keptChats) |-> ChatRowOf(keptChats[i])],
         contactRows |->
            [i \in 1..Len(keptContacts) |->
                [jid |-> keptContacts[i].id[1],
                 phone |-> Some(PhoneOf(keptContacts[i].id[1])),
                 push_name |-> COALESCE(keptContacts[i].notify, keptContacts[i].name),
                 saved_name |-> keptContacts[i].name,
                 is_business |-> 0]],
         msgRows |-> [i \in 1..Len(keptMessages) |->
                         parsedToRow(parseMessage(keptMessages[i])[1])]]

\* the "messaging-history.set" handler when no write fails: each collection filtered
\* and written by its bulk upsert
MessagingHistorySet(hMessages, hChats, hContacts) ==
    LET st == ListenerState
        rows == HistoryRows(hMessages, hChats, hContacts, listenerConfig)
    IN  Handled([st EXCEPT !.chats = bulkUpsertChats(st.chats, rows.chatRows),
                           !.contacts = bulkUpsertContacts(st.contacts, rows.contactRows),
                           !.messages = bulkUpsertMessages(st.messages, rows.msgRows)])

\* a bug: the rows written before the failing one stay
InTransaction_noRollback(before, partial, after, threw) ==
    IF threw THEN partial ELSE after

\* db.transaction(() => { for (const row of rows) stmt.run(row) })(): a throw inside
\* rolls the table back to what it was before
InTransaction(before, partial, after, threw) ==
    IF threw THEN before ELSE after

\* the "messaging-history.set" handler with a write that may throw: failIn names the
\* collection whose statement throws, on its row failAt; the throw leaves the handler,
\* so the collections after it are not written, and safeHandler logs it
HistoryBatch(hMessages, hChats, hContacts, failIn, failAt) ==
    LET rows == HistoryRows(hMessages, hChats, hContacts, listenerConfig)
        Before(r) == SubSeq(r, 1, failAt - 1)
    IN  /\ nEvents < MaxEvents
        /\ failIn = "chats" => failAt \in 1..Len(rows.chatRows)
        /\ failIn = "contacts" => failAt \in 1..Len(rows.contactRows)
        /\ failIn = "messages" => failAt \in 1..Len(rows.msgRows)
        /\ failIn = "none" => failAt = 1
        /\ nEvents' = nEvents + 1
        /\ chats' = InTransaction(chats, bulkUpsertChats(chats, Before(rows.chatRows)),
                                  bulkUpsertChats(chats, rows.chatRows), failIn = "chats")
        /\ contacts' =
              IF failIn = "chats" THEN contacts
              ELSE InTransaction(contacts,
                                 bulkUpsertContacts(contacts, Before(rows.contactRows)),
                                 bulkUpsertContacts(contacts, rows.contactRows),
                                 failIn = "contacts")
        /\ messages' =
              IF failIn \in {"chats", "contacts"} THEN messages
              ELSE InTransaction(messages,
                                 bulkUpsertMessages(messages, Before(rows.msgRows)),
                                 bulkUpsertMessages(messages, rows.msgRows),
                                 failIn = "messages")
        /\ histErr' = IF failIn = "none" THEN Null ELSE Some(failIn)
        /\ histRows' = Some(rows)
        /\ qOut' = Null
        /\ UNCHANGED <<listenerConfig, diskCfg, dedup, participants, forwarded,
                       resolveVars, sendVars, lockVars, storeOp, storeArg, dedupVars,
                       mcpVars, supVars, poolVars, sshVars, backfillVars, ftsVars,
                       safeVars, daemonVars, remoteVars>>

----------------------------------------------------------------------------
(* SpecListener: the transport's events, handled one at a time *)

MaxBatch == 1

EventJids == {Null, Some(JidGroupA), Some(JidDm), Some(JidStatus)}

ListenerNext ==
    \/ \E batch \in RowBatches(WAMessages(EventJids, MsgIds, {Some("n")}, {Some("b1")},
                                          {1}), MaxBatch),
          type \in {"notify", "append"} : MessagesUpsert(batch, type)
    \/ \E updates \in RowBatches([remoteJid : EventJids, id : {Some(<<"m1">>)},
                                  revoked : BOOLEAN], MaxBatch) : MessagesUpdate(updates)
    \/ \E reactions \in RowBatches([remoteJid : EventJids, id : {<<"m1">>},
                                    reactionKeyId : {Null}, text : {Null, Some("x")},
                                    timestamp : {1}], MaxBatch) :
          MessagesReaction(reactions)
    \/ \E batch \in RowBatches([id : EventJids, name : {Null},
                                conversationTimestamp : {Null, Some(2)}], MaxBatch) :
          ChatsUpsert(batch)
    \/ \E updates \in RowBatches([id : EventJids, name : {Null},
                                  conversationTimestamp : {Null, Some(2)}], MaxBatch) :
          ChatsUpdate(updates)
    \/ \E groups \in RowBatches(
              [id : EventJids, subject : {Some("g")}, desc : {Null},
               participants : {Null, Some(<<[id |-> JidDm, admin |-> Some("admin")]>>)}],
              MaxBatch) : GroupsUpsert(groups)
    \/ \E updates \in RowBatches([id : EventJids, subject : {Some("g2")}, desc : {Null}],
                                 MaxBatch) : GroupsUpdate(updates)
    \/ \E id \in {JidGroupA, JidGroupB}, action \in {"add", "remove"} :
          GroupParticipantsUpdate(id, <<JidDm>>, action)
    \/ \E hMessages \in RowBatches(WAMessages({Some(JidDm), Some(JidStatus)},
                                              {<<"m1">>}, {Null}, {Null}, {1}), MaxBatch),
          hChats \in RowBatches([id : {Some(JidDm), Some(JidStatus)},
                                 name : {Some("n1")},
                                 conversationTimestamp : {Some(1)}], MaxBatch),
          hContacts \in RowBatches([id : {Some(JidDm)}, notify : {Null},
                                    name : {Some("s")}], MaxBatch) :
          MessagingHistorySet(hMessages, hChats, hContacts)

SpecListener == ListenerInit /\ [][ListenerNext]_vars

\* C2: the store holds no message row and no chat row of a conversation that the
\* listener's policy resolves to none, nor of a status/broadcast pseudo-conversation.
C2_NoRowForBlockedOrBroadcast ==
    /\ \A m \in messages :
          shouldCollect(m.chat_jid, listenerConfig) /\ ~isStatusOrBroadcast(m.chat_jid)
    /\ \A c \in chats :
          shouldCollect(c.jid, listenerConfig) /\ ~isStatusOrBroadcast(c.jid)

----------------------------------------------------------------------------
(* The constraint commands of `wu config`, which rewrite the config file and *)
(* leave everything else alone                                              *)

ensureConstraints(cfg) ==
    IF cfg.constraints = Null THEN [default |-> "none", chats |-> <<>>]
    ELSE cfg.constraints[1]

\* constraints.chats[jid] = { mode }: a key already there keeps its place
SetChat(map, k, m) ==
    IF HasKey(map, k)
    THEN [i \in 1..Len(map) |-> IF map[i].key = k THEN [key |-> k, mode |-> m] ELSE map[i]]
    ELSE Append(map, [key |-> k, mode |-> m])

\* delete constraints.chats[jid], of a mapping that has the key
DeleteChat(map, k) ==
    LET i == CHOOSE n \in 1..Len(map) : map[n].key = k
    IN  SubSeq(map, 1, i - 1) \o SubSeq(map, i + 1, Len(map))

\* saveConfig(cfg)
Saved(cfg) ==
    /\ diskCfg' = cfg
    /\ qOut' = Null
    /\ UNCHANGED <<messages, chats, listenerConfig, dedup, contacts, participants,
                   forwarded, nEvents, exceptIngest>>

\* wu config allow <jid> --mode <mode>
ConfigAllow(jid, mode) ==
    LET constraints == ensureConstraints(diskCfg)
    IN  Saved(Policy(constraints.default, SetChat(constraints.chats, jid, mode)))

\* wu config block <jid>
ConfigBlock(jid) ==
    LET constraints == ensureConstraints(diskCfg)
    IN  Saved(Policy(constraints.default, SetChat(constraints.chats, jid, "none")))

\* wu config remove <jid>: the file is written only when the jid had an entry
ConfigRemove(jid) ==
    LET constraints == ensureConstraints(diskCfg)
    IN  Saved(IF HasKey(constraints.chats, jid)
              THEN Policy(constraints.default, DeleteChat(constraints.chats, jid))
              ELSE diskCfg)

\* wu config default <mode>
ConfigDefault(mode) ==
    LET constraints == ensureConstraints(diskCfg)
    IN  Saved(Policy(mode, constraints.chats))

----------------------------------------------------------------------------
(* The query tools and resources of the MCP server.  The stores of the model   *)
(* hold far fewer rows than the limits of the queries (50, 100, 10000), so a   *)
(* result that is only cut by its limit is the set of its rows.                *)

MessageOut(m) ==
    [id |-> m.id, body |-> m.body, type |-> m.type, timestamp |-> m.timestamp]

ChatOut(c) ==
    [jid |-> c.jid, name |-> c.name, type |-> c.type,
     last_message_at |-> c.last_message_at]

errorResult(text) == [isError |-> TRUE, text |-> text]

jsonResult(data) == [isError |-> FALSE, data |-> data]

\* the full-text match, or body LIKE %query%, is equality on a body of one token
wu_messages_search(msgs, cfg, query, chat) ==
    jsonResult({[id |-> r.id, chat_jid |-> r.chat_jid, body |-> r.body, type |-> r.type,
                 timestamp |-> r.timestamp] :
                   r \in {m \in msgs : /\ m.body = Some(query)
                                       /\ (chat = Null \/ m.chat_jid = chat[1])
                                       /\ shouldCollect(m.chat_jid, cfg)}})

wu_chats_list(chs, cfg) ==
    jsonResult({ChatOut(c) : c \in {x \in chs : shouldCollect(x.jid, cfg)}})

wu_messages_list(msgs, cfg, chat) ==
    IF ~shouldCollect(chat, cfg) THEN errorResult("blocked by constraints")
    ELSE jsonResult({MessageOut(m) : m \in {x \in msgs : x.chat_jid = chat}})

wu_chats_search(chs, cfg, query) ==
    jsonResult({ChatOut(c) : c \in {x \in chs : /\ x.name = Some(query)
                                                /\ shouldCollect(x.jid, cfg)}})

wu_groups_list(chs, cfg) ==
    jsonResult({[jid |-> c.jid, name |-> c.name,
                 participant_count |-> c.participant_count,
                 last_message_at |-> c.last_message_at] :
                   c \in {x \in chs : x.type = "group" /\ shouldCollect(x.jid, cfg)}})

\* the chat row of a jid, or none
FindChat(chs, jid) ==
    IF \E c \in chs : c.jid = jid THEN Some(CHOOSE c \in chs : c.jid = jid) ELSE Null

wu_groups_info(chs, parts, cfg, jid) ==
    IF ~shouldCollect(jid, cfg) THEN errorResult("blocked by constraints")
    ELSE LET group == FindChat(chs, jid)
         IN  jsonResult(
                [jid |-> jid,
                 name |-> IF group = Null THEN Null ELSE group[1].name,
                 description |-> IF group = Null THEN Null ELSE group[1].description,
                 participant_count |->
                     IF group = Null THEN Null ELSE group[1].participant_count,
                 participants |->
                     {[jid |-> p.participant_jid, is_admin |-> p.is_admin,
                       is_super_admin |-> p.is_super_admin] :
                         p \in {x \in parts : x.group_jid = jid}}])

\* ORDER BY timestamp, rowid
RowBefore(a, b) ==
    a.timestamp < b.timestamp \/ (a.timestamp = b.timestamp /\ a.rowid < b.rowid)

RECURSIVE SortRows(_)
SortRows(rows) ==
    IF rows = {} THEN <<>>
    ELSE LET first == CHOOSE r \in rows : \A x \in rows : x = r \/ RowBefore(r, x)
         IN  <<first>> \o SortRows(rows \ {first})

\* the target row, the beforeCount rows of its chat just before it and the afterCount
\* rows just after it, oldest first; none when the id is not stored
getMessageContext(msgs, id, beforeCount, afterCount) ==
    IF ~\E m \in msgs : m.id = id THEN Null
    ELSE LET target == CHOOSE m \in msgs : m.id = id
             older == SortRows({m \in msgs : m.chat_jid = target.chat_jid
                                             /\ RowBefore(m, target)})
             newer == SortRows({m \in msgs : m.chat_jid = target.chat_jid
                                             /\ RowBefore(target, m)})
         IN  Some([target |-> target,
                   before |-> SubSeq(older, MAX(1, Len(older) - beforeCount + 1),
                                     Len(older)),
                   after |-> SubSeq(newer, 1, IF Len(newer) < afterCount THEN Len(newer)
                                              ELSE afterCount)])

wu_messages_context(msgs, id, before, after) ==
    LET result == getMessageContext(msgs, id, before, after)
    IN  IF result = Null THEN errorResult("Message not found")
        ELSE jsonResult(
                [chat_jid |-> result[1].target.chat_jid,
                 target |-> MessageOut(result[1].target),
                 before |-> [i \in 1..Len(result[1].before) |->
                                MessageOut(result[1].before[i])],
                 after |-> [i \in 1..Len(result[1].after) |->
                               MessageOut(result[1].after[i])]])

\* wu://chats
resource_chats(chs) == jsonResult(chs)

\* wu://chats/{jid}/messages
resource_chat_messages(msgs, jid) ==
    jsonResult({[id |-> m.id, chat_jid |-> m.chat_jid, body |-> m.body, type |-> m.type,
                 media_path |-> m.media_path, timestamp |-> m.timestamp, raw |-> m.raw] :
                   m \in {x \in msgs : x.chat_jid = jid}})

\* wu://groups
resource_groups(chs) == jsonResult({c \in chs : c.type = "group"})

\* wu://groups/{jid}
resource_group(chs, parts, jid) ==
    LET chat == FindChat(chs, jid)
    IN  jsonResult(IF chat = Null THEN Null
                   ELSE Some([chat |-> chat[1],
                              participants |-> {p \in parts : p.group_jid = jid}]))

\* the response to a request (a tool or resource, and its parameters), from the tables
\* and the policy it is given
Respond(q, msgs, chs, parts, cfg) ==
    CASE q.tool = "wu_messages_search" -> wu_messages_search(msgs, cfg, q.query, q.chat)
      [] q.tool = "wu_chats_list" -> wu_chats_list(chs, cfg)
      [] q.tool = "wu_messages_list" -> wu_messages_list(msgs, cfg, q.chat[1])
      [] q.tool = "wu_chats_search" -> wu_chats_search(chs, cfg, q.query)
      [] q.tool = "wu_groups_list" -> wu_groups_list(chs, cfg)
      [] q.tool = "wu_groups_info" -> wu_groups_info(chs, parts, cfg, q.chat[1])
      [] q.tool = "wu_messages_context" ->
            wu_messages_context(msgs, q.message_id, q.before, q.after)
      [] q.tool = "wu://chats" -> resource_chats(chs)
      [] q.tool = "wu://chats/{jid}/messages" -> resource_chat_messages(msgs, q.chat[1])
      [] q.tool = "wu://groups" -> resource_groups(chs)
      [] q.tool = "wu://groups/{jid}" -> resource_group(chs, parts, q.chat[1])

----------------------------------------------------------------------------
(* SpecQuery: the listener's events, the constraint commands, and the queries *)

\* the requests made: every tool and resource, with its parameters; the parameters a
\* tool does not take are null or zero
Requests ==
    LET chosen == {Some(JidGroupA), Some(JidDm)}
        R(tools, queries, jids, ids, counts) ==
            [after : counts, before : counts, chat : jids, message_id : ids,
             query : queries, tool : tools]
    IN  R({"wu_messages_search"}, {"b1"}, {Null} \cup chosen, {Null}, {0}) \cup
        R({"wu_chats_search"}, {"g"}, {Null}, {Null}, {0}) \cup
        R({"wu_chats_list", "wu_groups_list", "wu://chats", "wu://groups"},
          {Null}, {Null}, {Null}, {0}) \cup
        R({"wu_messages_list", "wu_groups_info", "wu://chats/{jid}/messages",
           "wu://groups/{jid}"}, {Null}, chosen, {Null}, {0}) \cup
        R({"wu_messages_context"}, {Null}, {Null}, MsgIds, {1, 10})

\* a request served: loadConfig(), then the tool's or resource's handler
Query(q) ==
    /\ qOut' = Some([request |-> q,
                     response |-> Respond(q, messages, chats, participants, diskCfg)])
    /\ UNCHANGED <<messages, chats, listenerConfig, diskCfg, dedup, contacts,
                   participants, forwarded, nEvents, exceptIngest>>

QueryNext ==
    \/ ListenerNext
    \/ ConfigAllow(JidDm, "read")
    \/ ConfigBlock(JidDm)
    \/ ConfigRemove(JidDm)
    \/ \E mode \in {"none", "full"} : ConfigDefault(mode)
    \/ \E q \in Requests : Query(q)

SpecQuery == ListenerInit /\ [][QueryNext]_vars

\* the tables without the rows of the conversations the config file blocks
PurgedMessages == {m \in messages : shouldCollect(m.chat_jid, diskCfg)}

PurgedChats == {c \in chats : shouldCollect(c.jid, diskCfg)}

PurgedParticipants == {p \in participants : shouldCollect(p.group_jid, diskCfg)}

\* C4: the response to every query is the response the same query gets from the store
\* without the rows of the conversations whose current access level is none, so that
\* two stores which differ only in such rows answer every query alike.
C4_QueriesGated ==
    qOut # Null =>
        qOut[1].response =
            Respond(qOut[1].request, PurgedMessages, PurgedChats, PurgedParticipants,
                    diskCfg)

----------------------------------------------------------------------------
(* SpecDedup: one FifoDedup of a small capacity, under add and has calls *)

MaxDedup == 3

\* new FifoDedup(maxSize)
DedupInit ==
    /\ dMap = <<>>
    /\ dMaxSize \in 1..MaxDedup
    /\ dRes = Null
    /\ ResolveIdle
    /\ SendIdle
    /\ LockIdle
    /\ StoreIdle
    /\ IngestIdle
    /\ McpIdle
    /\ SupIdle
    /\ PoolIdle
    /\ SshIdle
    /\ BackfillIdle
    /\ FtsIdle
    /\ HistIdle
    /\ SafeIdle
    /\ DaemonIdle
    /\ RemoteIdle

DedupHas(key) ==
    /\ dRes' = Some([op |-> "has", key |-> key, result |-> FifoDedup_has(dMap, key),
                     evicted |-> Null])
    /\ UNCHANGED <<dMap, dMaxSize, exceptDedup>>

DedupAdd(key) ==
    /\ dMap' = FifoDedup_add(dMap, key, dMaxSize)
    /\ dRes' = Some([op |-> "add", key |-> key, result |-> FALSE,
                     evicted |-> IF Len(dMap) >= dMaxSize THEN Some(Head(dMap))
                                 ELSE Null])
    /\ UNCHANGED <<dMaxSize, exceptDedup>>

DedupNext == \E key \in {"a", "b", "c", "d"} : DedupHas(key) \/ DedupAdd(key)

SpecDedup == DedupInit /\ [][DedupNext]_vars

\* the keys of a sequence, and the order two keys of it are in
KeysOf(m) == {m[i] : i \in 1..Len(m)}

\* C11: the number of held keys never exceeds the capacity; an add at capacity drops
\* the oldest-inserted key and no other, an add below capacity drops none, the added
\* key is held afterwards and the remaining keys keep their order of insertion with a
\* new key last; a has call answers whether the key is held and changes nothing.
C11_StrictFifo ==
    [][/\ Len(dMap') <= dMaxSize
       /\ \A i, k \in 1..Len(dMap') : dMap'[i] = dMap'[k] => i = k
       /\ dRes'[1].op = "has" =>
             /\ dMap' = dMap
             /\ dRes'[1].result = (dRes'[1].key \in KeysOf(dMap))
       /\ dRes'[1].op = "add" =>
             LET key == dRes'[1].key
                 kept == IF Len(dMap) = dMaxSize THEN KeysOf(dMap) \ {Head(dMap)}
                         ELSE KeysOf(dMap)
             IN  /\ KeysOf(dMap') = kept \cup {key}
                 /\ \A i, k \in 1..Len(dMap) :
                       (i < k /\ dMap[i] \in kept /\ dMap[k] \in kept) =>
                           IndexOf(dMap', dMap[i]) < IndexOf(dMap', dMap[k])
                 /\ key \notin kept => dMap'[Len(dMap')] = key
      ]_vars

\* capacity 3 after add a, b, c, d: a was evicted, b, c and d are held, size 3
C11_Witness ==
    /\ dMaxSize = 3
    /\ dRes = Some([op |-> "add", key |-> "d", result |-> FALSE, evicted |-> Some("a")])
    /\ dMap = <<"b", "c", "d">>

\* capacity 1 after add a then b: a was evicted and b is held
C11_WitnessOne ==
    /\ dMaxSize = 1
    /\ dRes = Some([op |-> "add", key |-> "b", result |-> FALSE, evicted |-> Some("a")])
    /\ dMap = <<"b">>

----------------------------------------------------------------------------
(* SpecMcp: the MCP server, process 1, from its start.  lockFile is the      *)
(* instance lock it finds (free, held by the live process 2, or left by the  *)
(* dead process 3) and messages is the local database.                       *)

MaxToolCalls == 2

McpInit ==
    /\ mcpIn \in [defaultRemote : BOOLEAN, hasLocalDb : BOOLEAN, connects : BOOLEAN]
    /\ mcpPc = "start"
    /\ mSock = FALSE
    /\ remoteForTools = FALSE
    /\ ownsConnection = FALSE
    /\ mcpLog = <<>>
    /\ mcpRes = Null
    /\ lockFile \in {Null, Some(2), Some(3)}
    /\ alive = [p \in Pids |-> p # 3]
    /\ pc = <<>>
    /\ seen = <<>>
    /\ held = <<>>
    /\ lockRes = Null
    /\ messages \in {{}, upsertMessage({}, [id |-> <<"m1">>, chat_jid |-> JidGroupA,
                                            body |-> Some("b0"), type |-> "text",
                                            media_path |-> Null, timestamp |-> 0,
                                            raw |-> Some("r0")])}
    /\ chats = {}
    /\ storeOp = "none"
    /\ storeArg = Null
    /\ listenerConfig = Policy("full", <<>>)
    /\ diskCfg = Policy("full", <<>>)
    /\ dedup = <<>>
    /\ contacts = {}
    /\ participants = {}
    /\ forwarded = <<>>
    /\ qOut = Null
    /\ nEvents = 0
    /\ ResolveIdle
    /\ SendIdle
    /\ DedupIdle
    /\ SupIdle
    /\ PoolIdle
    /\ SshIdle
    /\ BackfillIdle
    /\ FtsIdle
    /\ HistIdle
    /\ SafeIdle
    /\ DaemonIdle
    /\ RemoteIdle

\* a bug: a configured remote is used for the tools whoever holds the lock
startMcpServer_remoteWhenLocked ==
    /\ mcpPc = "start"
    /\ mcpPc' = "serving"
    /\ remoteForTools' = mcpIn.defaultRemote
    /\ UNCHANGED <<mSock, ownsConnection, lockFile>>
    /\ UNCHANGED <<mcpIn, mcpLog, mcpRes, messages, exceptMcp>>

\* startMcpServer up to server.connect: isLocked(), getDefaultRemote(),
\* existsSync(DB_PATH) and the branch taken.  In the last branch a connection that
\* does not open rejects the start after the lock was taken.
startMcpServer ==
    /\ mcpPc = "start"
    /\ LET l == isLocked(lockFile)
       IN  IF l.locked
           THEN /\ mcpPc' = "serving"
                /\ lockFile' = l.file
                /\ UNCHANGED <<mSock, remoteForTools, ownsConnection>>
           ELSE IF mcpIn.defaultRemote /\ mcpIn.hasLocalDb
           THEN /\ mcpPc' = "serving"
                /\ remoteForTools' = TRUE
                /\ lockFile' = l.file
                /\ UNCHANGED <<mSock, ownsConnection>>
           ELSE IF mcpIn.defaultRemote /\ ~mcpIn.hasLocalDb
           THEN /\ mcpPc' = "exit1"
                /\ lockFile' = l.file
                /\ UNCHANGED <<mSock, remoteForTools, ownsConnection>>
           ELSE /\ lockFile' = acquireLock(l.file, 1).file
                /\ ownsConnection' = TRUE
                /\ mSock' = mcpIn.connects
                /\ mcpPc' = IF mcpIn.connects THEN "serving" ELSE "rejected"
                /\ UNCHANGED remoteForTools
    /\ UNCHANGED <<mcpIn, mcpLog, mcpRes, messages, exceptMcp>>

\* the tools that write: each goes to the transport when there is a sock, else over
\* SSH when there is a remote and the tool has a remote branch, else it fails
WriteTools ==
    {"wu_messages_send", "wu_react", "wu_media_download", "wu_groups_create",
     "wu_groups_leave", "wu_groups_invite", "wu_history_backfill",
     "wu_media_download_batch", "wu_groups_rename", "wu_groups_join"}

\* a call of a writing tool.  outcome is what the operation it starts does: "ok",
\* "denied" (a local call refused by the constraints before it reaches the transport)
\* or "failed" (the transport throws, or the remote command exits non-zero); sentId is
\* the id the remote peer returns for a send
WriteTool(tool, chat, outcome, sentId) ==
    /\ mcpPc = "serving"
    /\ Len(mcpLog) < MaxToolCalls
    /\ LET params == [chat |-> chat, message_id |-> <<"m1">>, text |-> Some("b1")]
           via == IF mSock THEN "sock"
                  ELSE IF remoteForTools /\ tool # "wu_media_download" THEN "ssh"
                  ELSE "none"
           dispatched == via = "ssh" \/ (via = "sock" /\ outcome # "denied")
           ok == via # "none" /\ outcome = "ok"
           injects == ok /\ via = "ssh" /\ tool = "wu_messages_send"
       IN  /\ mcpLog' = Append(mcpLog, [tool |-> tool,
                                        via |-> IF dispatched THEN via ELSE "none"])
           /\ mcpRes' = Some([tool |-> tool, params |-> params, via |-> via,
                              isError |-> ~ok,
                              id |-> IF injects THEN Some(sentId) ELSE Null,
                              data |-> Null])
           /\ messages' =
                 IF injects
                 THEN upsertMessage(messages,
                         [id |-> sentId, chat_jid |-> params.chat, body |-> params.text,
                          type |-> "text", media_path |-> Null, timestamp |-> 1,
                          raw |-> Null])
                 ELSE messages
    /\ UNCHANGED <<mcpIn, mcpPc, mSock, remoteForTools, ownsConnection, lockFile,
                   exceptMcp>>

\* a call of a query tool: answered from the local database, whatever the mode
ReadTool(tool, chat) ==
    /\ mcpPc = "serving"
    /\ Len(mcpLog) < MaxToolCalls
    /\ mcpLog' = Append(mcpLog, [tool |-> tool, via |-> "none"])
    /\ LET q == [tool |-> tool, query |-> Null, chat |-> Some(chat),
                 message_id |-> Null, before |-> 0, after |-> 0]
           response == Respond(q, messages, chats, participants, diskCfg)
       IN  mcpRes' = Some([tool |-> q.tool, params |-> q, via |-> "db",
                           isError |-> response.isError, id |-> Null,
                           data |-> Some(response)])
    /\ UNCHANGED <<mcpIn, mcpPc, mSock, remoteForTools, ownsConnection, lockFile,
                   messages, exceptMcp>>

McpNext ==
    \/ startMcpServer
    \/ \E tool \in WriteTools, outcome \in {"ok", "denied", "failed"}, sentId \in MsgIds :
          WriteTool(tool, JidGroupA, outcome, sentId)
    \/ ReadTool("wu_messages_list", JidGroupA)

SpecMcp == McpInit /\ [][McpNext]_vars

\* the start's facts: (a) a live process holds the lock, (b) a remote is configured,
\* (c) a local replica database exists
LockHeldByLive == lockFile # Null /\ alive[lockFile[1]]

\* C12: over the eight combinations of (a, b, c) the start chooses: a => read-only
\* local; ~a /\ b /\ c => remote; ~a /\ b /\ ~c => fatal; ~a /\ ~b => full local, this
\* process acquiring the lock and owning the transport connection.
C12_OperatingMode ==
    [][mcpPc = "start" /\ mcpPc' # "start" =>
          LET a == LockHeldByLive
              b == mcpIn.defaultRemote
              c == mcpIn.hasLocalDb
          IN  /\ a => /\ mcpPc' = "serving"
                      /\ ~mSock' /\ ~remoteForTools' /\ ~ownsConnection'
                      /\ lockFile' = lockFile
              /\ ~a /\ b /\ c => /\ mcpPc' = "serving"
                                 /\ remoteForTools' /\ ~mSock' /\ ~ownsConnection'
                                 /\ lockFile' = Null
              /\ ~a /\ b /\ ~c => /\ mcpPc' = "exit1"
                                  /\ ~mSock' /\ ~remoteForTools' /\ ~ownsConnection'
              /\ ~a /\ ~b => /\ lockFile' = Some(1)
                             /\ ownsConnection'
                             /\ ~remoteForTools'
                             /\ mcpPc' = "serving" <=> mSock'
                             /\ mcpPc' \in {"serving", "rejected"}]_vars

\* full local mode entered over a stale lock file, with a local database present
C12_Witness ==
    /\ mcpPc = "serving"
    /\ mSock
    /\ ownsConnection
    /\ lockFile = Some(1)
    /\ mcpIn.hasLocalDb
    /\ ~mcpIn.defaultRemote

\* remote mode entered
C12_WitnessRemote == mcpPc = "serving" /\ remoteForTools /\ ~mSock /\ lockFile = Null

\* read-only local mode entered with a remote configured
C12_WitnessReadOnly ==
    /\ mcpPc = "serving"
    /\ LockHeldByLive
    /\ lockFile = Some(2)
    /\ mcpIn.defaultRemote
    /\ mcpIn.hasLocalDb

\* the fatal exit
C12_WitnessFatal == mcpPc = "exit1"

\* another live process holds the instance lock
OtherHoldsLock == lockFile # Null /\ lockFile[1] # 1 /\ alive[lockFile[1]]

\* C13: in read-only local mode every writing tool returns an error and starts
\* nothing on the transport and nothing on a remote peer, also when a remote is
\* configured, and the database is left as it was; a query tool is answered from the
\* local database.
C13_ReadOnlyRefusesWrites ==
    /\ [](mcpPc = "serving" /\ OtherHoldsLock =>
            /\ ~mSock
            /\ \A i \in 1..Len(mcpLog) : mcpLog[i].via = "none"
            /\ mcpRes # Null =>
                  LET r == mcpRes[1]
                  IN  IF r.tool \in WriteTools
                      THEN r.isError /\ r.via = "none" /\ r.id = Null
                      ELSE /\ r.via = "db"
                           /\ r.data = Some(wu_messages_list(messages, diskCfg,
                                                             r.params.chat[1])))
    /\ [][mcpPc = "serving" /\ OtherHoldsLock => messages' = messages]_vars

\* read-only mode with a remote configured and a replica present: a send was refused
C13_Witness ==
    /\ mcpPc = "serving"
    /\ OtherHoldsLock
    /\ mcpIn.defaultRemote
    /\ mcpIn.hasLocalDb
    /\ mcpRes # Null
    /\ mcpRes[1].tool = "wu_messages_send"
    /\ mcpRes[1].isError

\* read-only mode: a query answered with the stored message after a refused write
C13_WitnessQuery ==
    /\ mcpPc = "serving"
    /\ OtherHoldsLock
    /\ Len(mcpLog) = 2
    /\ mcpLog[1].tool = "wu_react"
    /\ mcpRes # Null
    /\ mcpRes[1].tool = "wu_messages_list"
    /\ ~mcpRes[1].isError
    /\ mcpRes[1].data[1].data # {}

\* C14: in remote mode a forwarded write that returns success has its effect in the
\* local database when the tool call returns: a forwarded send is stored under the id
\* the remote peer returned, a forwarded reaction is stored for the message it is on.
C14_ForwardedWriteReflected ==
    mcpRes # Null /\ mcpRes[1].via = "ssh" /\ ~mcpRes[1].isError =>
        LET r == mcpRes[1]
        IN  /\ r.tool = "wu_messages_send" =>
                  \E m \in messages : /\ Some(m.id) = r.id
                                      /\ m.chat_jid = r.params.chat
                                      /\ m.body # Null
            /\ r.tool = "wu_react" =>
                  \E m \in messages : /\ m.type = "reaction"
                                      /\ m.chat_jid = r.params.chat

\* the part of C14 that holds: a forwarded send that succeeded is in the local
\* database under the returned id
C14_ForwardedSendStored ==
    mcpRes # Null /\ mcpRes[1].via = "ssh" /\ ~mcpRes[1].isError
        /\ mcpRes[1].tool = "wu_messages_send" =>
        \E m \in messages : Some(m.id) = mcpRes[1].id /\ m.chat_jid = mcpRes[1].params.chat

\* a forwarded send stored under a new id next to the message already there
C14_SendWitness ==
    /\ mcpRes # Null
    /\ mcpRes[1].via = "ssh"
    /\ mcpRes[1].tool = "wu_messages_send"
    /\ mcpRes[1].id = Some(<<"m2">>)
    /\ Cardinality(messages) = 2

----------------------------------------------------------------------------
(* SpecSup: one ReconnectingConnection and the credentials of its connections, *)
(* with the owner's shutdown (the daemon).  A close reason is the name of its  *)
(* DisconnectReason, "forbidden" stands for a code handleDisconnect does not   *)
(* list, and a credential change is the number of changes received so far.     *)

backoff == 2000

maxBackoff == 60000

maxFailures == 10

ReplacedDelay == 5000

MaxCreds == 2

StatusCodes ==
    {"loggedOut", "connectionLost", "timedOut", "multideviceMismatch", "connectionClosed",
     "connectionReplaced", "badSession", "unavailableService", "restartRequired",
     "forbidden"}

\* a bug: a replaced connection is reconnected by a foreground command too
handleDisconnect_replacedAlways(statusCode, isDaemon) ==
    statusCode \notin {"loggedOut", "multideviceMismatch", "badSession"}

handleDisconnect(statusCode, isDaemon) ==
    CASE statusCode = "loggedOut" -> FALSE
      [] statusCode \in {"connectionLost", "timedOut"} -> TRUE
      [] statusCode = "multideviceMismatch" -> FALSE
      [] statusCode = "connectionClosed" -> TRUE
      [] statusCode = "connectionReplaced" -> isDaemon
      [] statusCode = "badSession" -> FALSE
      [] statusCode = "unavailableService" -> TRUE
      [] statusCode = "restartRequired" -> TRUE
      [] OTHER -> TRUE

Min(a, b) == IF a <= b THEN a ELSE b

\* a bug: the delay keeps doubling past the cap
ReconnectDelay_noCap(reason, failures) ==
    IF reason = "connectionReplaced" THEN ReplacedDelay ELSE backoff * 2 ^ (failures - 1)

\* the delay onClose computes once it has counted the close
ReconnectDelay(reason, failures) ==
    IF reason = "connectionReplaced" THEN ReplacedDelay
    ELSE Min(backoff * 2 ^ (failures - 1), maxBackoff)

\* a bug: gives up one failure late
GivesUp_late(failures) == failures > maxFailures

GivesUp(failures) == failures >= maxFailures

SupInit ==
    /\ supDaemon \in BOOLEAN
    /\ consecutiveFailures = 0
    /\ stopped = FALSE
    /\ sockState = "none"
    /\ creating = TRUE
    /\ reconnectTimer = Null
    /\ lastClose = Null
    /\ fatal = FALSE
    /\ supPc = "run"
    /\ shutLog = <<>>
    /\ credsSeq = 0
    /\ credsSaved = 0
    /\ credsDirty = FALSE
    /\ credsTimer = FALSE
    /\ saving = {}
    /\ flushedAt = Null
    /\ ResolveIdle
    /\ SendIdle
    /\ LockIdle
    /\ StoreIdle
    /\ IngestIdle
    /\ DedupIdle
    /\ McpIdle
    /\ PoolIdle
    /\ SshIdle
    /\ BackfillIdle
    /\ FtsIdle
    /\ HistIdle
    /\ SafeIdle
    /\ DaemonIdle
    /\ RemoteIdle

\* connect(): createConnection returns.  The new connection has its own credsDirty;
\* a saveCreds still in flight belongs to the connection before it.
Connected ==
    /\ supPc # "exited"
    /\ creating
    /\ creating' = FALSE
    /\ sockState' = "connecting"
    /\ credsDirty' = FALSE
    /\ saving' = {[s EXCEPT !.own = FALSE] : s \in saving}
    /\ UNCHANGED <<supDaemon, consecutiveFailures, stopped, reconnectTimer, lastClose, fatal,
                   supPc, shutLog, credsSeq, credsSaved, credsTimer, flushedAt, exceptSup>>

\* connection.update with connection "open": onOpen
Open ==
    /\ supPc # "exited"
    /\ sockState = "connecting"
    /\ sockState' = "open"
    /\ consecutiveFailures' = 0
    /\ UNCHANGED <<supDaemon, stopped, creating, reconnectTimer, lastClose, fatal, supPc,
                   shutLog, credsSeq, credsSaved, credsDirty, credsTimer, saving, flushedAt,
                   exceptSup>>

\* connection.update with connection "close": the status code of the error, or
\* connectionClosed without one, then handleDisconnect and onClose
Close(error) ==
    /\ supPc # "exited"
    /\ sockState \in {"connecting", "open"}
    /\ sockState' = "closed"
    /\ LET statusCode == IF error = Null THEN "connectionClosed" ELSE error[1]
           willReconnect == handleDisconnect(statusCode, supDaemon)
       IN  /\ lastClose' = Some(statusCode)
           /\ IF willReconnect /\ ~stopped
              THEN /\ consecutiveFailures' = consecutiveFailures + 1
                   /\ IF GivesUp(consecutiveFailures + 1)
                      THEN fatal' = TRUE /\ UNCHANGED reconnectTimer
                      ELSE /\ reconnectTimer' =
                                 Some(ReconnectDelay(statusCode, consecutiveFailures + 1))
                           /\ UNCHANGED fatal
              ELSE UNCHANGED <<consecutiveFailures, fatal, reconnectTimer>>
    /\ UNCHANGED <<supDaemon, stopped, creating, supPc, shutLog, credsSeq, credsSaved,
                   credsDirty, credsTimer, saving, flushedAt, exceptSup>>

\* a bug: the timer callback connects whether or not stop() was called
ReconnectTimerFires_ignoreStopped ==
    /\ supPc # "exited"
    /\ reconnectTimer # Null
    /\ ~credsTimer
    /\ reconnectTimer' = Null
    /\ creating' = TRUE
    /\ UNCHANGED <<supDaemon, consecutiveFailures, stopped, sockState, lastClose, fatal,
                   supPc, shutLog, credsSeq, credsSaved, credsDirty, credsTimer, saving,
                   flushedAt, exceptSup>>

\* the reconnect timer's callback.  The debounce timer of the closed connection was
\* set before the close and runs 500 ms, the reconnect timer at least 2000 ms, so the
\* debounce timer is the first to fire.
ReconnectTimerFires ==
    /\ supPc # "exited"
    /\ reconnectTimer # Null
    /\ ~credsTimer
    /\ reconnectTimer' = Null
    /\ creating' = IF stopped THEN creating ELSE TRUE
    /\ UNCHANGED <<supDaemon, consecutiveFailures, stopped, sockState, lastClose, fatal,
                   supPc, shutLog, credsSeq, credsSaved, credsDirty, credsTimer, saving,
                   flushedAt, exceptSup>>

\* "creds.update" on the live connection: debouncedSaveCreds
CredsUpdate ==
    /\ supPc # "exited"
    /\ sockState \in {"connecting", "open"}
    /\ credsSeq < MaxCreds
    /\ credsSeq' = credsSeq + 1
    /\ credsDirty' = TRUE
    /\ credsTimer' = TRUE
    /\ UNCHANGED <<supDaemon, consecutiveFailures, stopped, sockState, creating,
                   reconnectTimer, lastClose, fatal, supPc, shutLog, credsSaved, saving,
                   flushedAt, exceptSup>>

\* the debounce timer's callback up to its await: saveCreds() is started on the
\* credentials as they are now
CredsTimerFires ==
    /\ supPc # "exited"
    /\ credsTimer
    /\ credsTimer' = FALSE
    /\ saving' = IF credsDirty
                 THEN saving \cup {[own |-> TRUE, snap |-> credsSeq, by |-> "timer"]}
                 ELSE saving
    /\ UNCHANGED <<supDaemon, consecutiveFailures, stopped, sockState, creating,
                   reconnectTimer, lastClose, fatal, supPc, shutLog, credsSeq, credsSaved,
                   credsDirty, flushedAt, exceptSup>>

\* the callback after its await: the write is done, credsDirty = false
SaveDone ==
    /\ supPc # "exited"
    /\ \E s \in {x \in saving : x.by = "timer"} :
          /\ saving' = saving \ {s}
          /\ credsSaved' = IF s.snap > credsSaved THEN s.snap ELSE credsSaved
          /\ credsDirty' = IF s.own THEN FALSE ELSE credsDirty
    /\ UNCHANGED <<supDaemon, consecutiveFailures, stopped, sockState, creating,
                   reconnectTimer, lastClose, fatal, supPc, shutLog, credsSeq, credsTimer,
                   flushedAt, exceptSup>>

\* sock.end(undefined) on the socket of record: a live socket closes, its close event
\* reaches onClose with stopped set
SockEnd == IF sockState \in {"connecting", "open"} THEN "closed" ELSE sockState

\* stop() up to the await in flushCreds: stopped = true, the debounce timer cleared,
\* saveCreds() started when the connection of record is dirty; with nothing to save
\* stop() goes on to sock.end and returns
Stop ==
    /\ supPc = "run"
    /\ stopped' = TRUE
    /\ IF sockState = "none"
       THEN /\ supPc' = "stopped"
            /\ flushedAt' = Some(credsSeq)
            /\ UNCHANGED <<credsTimer, saving, sockState, shutLog, lastClose>>
       ELSE /\ credsTimer' = FALSE
            /\ IF credsDirty
               THEN /\ saving' = saving \cup
                                    {[own |-> TRUE, snap |-> credsSeq, by |-> "flush"]}
                    /\ supPc' = "flushing"
                    /\ UNCHANGED <<sockState, shutLog, lastClose, flushedAt>>
               ELSE /\ supPc' = "stopped"
                    /\ flushedAt' = Some(credsSeq)
                    /\ sockState' = SockEnd
                    /\ lastClose' = IF sockState' # sockState THEN Some("connectionClosed")
                                    ELSE lastClose
                    /\ shutLog' = shutLog \o <<"flush", "end">>
                    /\ UNCHANGED saving
    /\ UNCHANGED <<supDaemon, consecutiveFailures, creating, reconnectTimer, fatal, credsSeq,
                   credsSaved, credsDirty, exceptSup>>

\* stop() after the await: the flush's write is done, credsDirty = false, then
\* sock.end on what is the socket of record by now
StopFlushed ==
    /\ supPc = "flushing"
    /\ \E s \in {x \in saving : x.by = "flush"} :
          /\ saving' = saving \ {s}
          /\ credsSaved' = IF s.snap > credsSaved THEN s.snap ELSE credsSaved
          /\ credsDirty' = IF s.own THEN FALSE ELSE credsDirty
    /\ supPc' = "stopped"
    /\ flushedAt' = Some(credsSeq)
    /\ sockState' = SockEnd
    /\ lastClose' = IF sockState' # sockState THEN Some("connectionClosed") ELSE lastClose
    /\ shutLog' = shutLog \o <<"flush", "end">>
    /\ UNCHANGED <<supDaemon, consecutiveFailures, stopped, creating, reconnectTimer, fatal,
                   credsSeq, credsTimer, exceptSup>>

\* the daemon's shutdown after await conn.stop(): closeDb(), releaseLock(), exit
Shutdown ==
    /\ supPc = "stopped"
    /\ supPc' = "exited"
    /\ shutLog' = shutLog \o <<"closeDb", "releaseLock", "exit">>
    /\ UNCHANGED <<supDaemon, consecutiveFailures, stopped, sockState, creating,
                   reconnectTimer, lastClose, fatal, credsSeq, credsSaved, credsDirty,
                   credsTimer, saving, flushedAt, exceptSup>>

SupNext ==
    \/ Connected
    \/ Open
    \/ \E error \in {Null} \cup {Some(c) : c \in StatusCodes} : Close(error)
    \/ ReconnectTimerFires
    \/ CredsUpdate
    \/ CredsTimerFires
    \/ SaveDone
    \/ Stop
    \/ StopFlushed
    \/ Shutdown

SpecSup == SupInit /\ [][SupNext]_vars

\* a close has just scheduled a reconnect
Scheduled == reconnectTimer = Null /\ reconnectTimer' # Null

\* C15 as stated: after the i-th consecutive recoverable close the reconnect delay is
\* min(base * 2^(i-1), cap), base 2 s and cap 60 s, whatever the close reason; an
\* open resets the count.
C15_DelayDoublesToCap ==
    [][/\ Scheduled =>
              reconnectTimer' = Some(Min(2000 * 2 ^ (consecutiveFailures' - 1), 60000))
       /\ sockState = "connecting" /\ sockState' = "open" => consecutiveFailures' = 0]_vars

\* C15, amended: the delay after the i-th consecutive recoverable close, i < 10, is
\* min(base * 2^(i-1), cap) with base 2 s and cap 60 s when the close reason is not
\* "connection replaced", and a fixed 5 s when it is (a daemon only); every
\* recoverable close counts, a replaced connection too, and an open resets the
\* count so that the next failure's delay is the base again.
C15_DelayDoublesToCapUnlessReplaced ==
    [][/\ Scheduled =>
              /\ consecutiveFailures' = consecutiveFailures + 1
              /\ consecutiveFailures' < 10
              /\ reconnectTimer' =
                    IF lastClose' = Some("connectionReplaced")
                    THEN Some(5000)
                    ELSE Some(Min(2000 * 2 ^ (consecutiveFailures' - 1), 60000))
              /\ lastClose' = Some("connectionReplaced") => supDaemon
       /\ sockState = "connecting" /\ sockState' = "open" => consecutiveFailures' = 0
       /\ Scheduled /\ consecutiveFailures = 0 /\ lastClose' # Some("connectionReplaced")
             => reconnectTimer' = Some(2000)]_vars

\* the delay at the cap: the sixth failure in a row, not a replaced connection
C15_Witness ==
    /\ consecutiveFailures = 6
    /\ reconnectTimer = Some(60000)
    /\ lastClose = Some("connectionLost")

\* the fixed delay: a daemon's connection replaced as its third failure in a row
C15_WitnessReplaced ==
    /\ supDaemon
    /\ consecutiveFailures = 3
    /\ reconnectTimer = Some(5000)
    /\ lastClose = Some("connectionReplaced")

\* C16: when the consecutive recoverable closes reach 10, onFatal is called and no
\* reconnect is scheduled; from then on no connection attempt is scheduled or started.
C16_FatalAtTenStopsRetrying ==
    [][/\ consecutiveFailures' = 10 /\ consecutiveFailures = 9 =>
              fatal' /\ reconnectTimer' = Null /\ ~creating'
       /\ fatal' => consecutiveFailures' = 10
       /\ fatal => /\ fatal'
                   /\ reconnectTimer' = Null
                   /\ ~creating'
                   /\ sockState' = "closed"]_vars

\* the supervisor gave up, the last close being one a daemon alone recovers from
C16_Witness ==
    /\ fatal
    /\ consecutiveFailures = 10
    /\ lastClose = Some("connectionReplaced")
    /\ ~stopped

\* a close event has just been handled by onClose
Closed(statusCode) ==
    /\ sockState \in {"connecting", "open"}
    /\ sockState' = "closed"
    /\ ~stopped'
    /\ lastClose' = Some(statusCode)

\* the close was taken as recoverable: counted, and a reconnect scheduled or given up
Recovering ==
    /\ consecutiveFailures' = consecutiveFailures + 1
    /\ \/ consecutiveFailures' < 10 /\ reconnectTimer' # Null /\ ~fatal'
       \/ consecutiveFailures' = 10 /\ reconnectTimer' = Null /\ fatal'

\* the close was taken as final: not counted, nothing scheduled
GivingUp == UNCHANGED <<consecutiveFailures, reconnectTimer, fatal, creating>>

\* C17: at every failure count, loggedOut, multideviceMismatch and badSession never
\* lead to a reconnect attempt; connectionReplaced leads to one for a daemon only;
\* every other close reason is recoverable.
C17_CloseReasons ==
    [][\A c \in StatusCodes :
          Closed(c) =>
             IF c \in {"loggedOut", "multideviceMismatch", "badSession"} THEN GivingUp
             ELSE IF c = "connectionReplaced"
             THEN IF supDaemon THEN Recovering ELSE GivingUp
             ELSE Recovering]_vars

\* a foreground command's connection replaced after failures: no reconnect
C17_Witness ==
    /\ ~supDaemon
    /\ lastClose = Some("connectionReplaced")
    /\ sockState = "closed"
    /\ consecutiveFailures = 5
    /\ reconnectTimer = Null
    /\ ~creating
    /\ ~stopped

\* an unlisted status code recovered from
C17_WitnessOther ==
    /\ lastClose = Some("forbidden")
    /\ reconnectTimer = Some(4000)

\* C18: no credential change is lost: once no debounce timer is pending and no write
\* is in flight every change received is on disk, and when stop's flush has returned
\* every change received until then is on disk.
C18_NoCredentialChangeLost ==
    /\ ~credsTimer /\ saving = {} => credsSaved = credsSeq
    /\ flushedAt # Null => credsSaved >= flushedAt[1]

\* the two halves of C18 on their own
C18_DebounceHalf == ~credsTimer /\ saving = {} => credsSaved = credsSeq

C18_FlushHalf == flushedAt # Null => credsSaved >= flushedAt[1]

\* the order of a shutdown
ShutdownOrder == <<"flush", "end", "closeDb", "releaseLock", "exit">>

\* C19: stop() flushes the pending credential write before it closes the transport,
\* and both come before the owner closes the database, releases the lock and exits;
\* once stop() was called no connection attempt is started and no reconnect is
\* scheduled, also when a reconnect timer set earlier fires or the close that stop()
\* causes is one that is recoverable.
C19_StopOrderedAndFinal ==
    /\ [](/\ \A i, j \in 1..Len(shutLog) :
                i < j => IndexOf(ShutdownOrder, shutLog[i]) < IndexOf(ShutdownOrder, shutLog[j])
          /\ supPc \in {"stopped", "exited"} =>
                /\ stopped
                /\ \A s \in saving : s.by # "flush"
          /\ supPc = "exited" =>
                SubSeq(shutLog, Len(shutLog) - 2, Len(shutLog)) =
                   <<"closeDb", "releaseLock", "exit">>)
    /\ [][/\ stopped =>
                /\ stopped'
                /\ creating' => creating
                /\ reconnectTimer' # Null => reconnectTimer' = reconnectTimer
          /\ supPc = "run" /\ supPc' = "stopped" /\ sockState \in {"connecting", "open"} =>
                shutLog' = <<"flush", "end">> /\ sockState' = "closed"
          /\ supPc = "flushing" /\ supPc' = "stopped" =>
                /\ shutLog' = <<"flush", "end">>
                /\ sockState' \in {"none", "closed"}
                /\ \E s \in saving : s.by = "flush" /\ credsSaved' >= s.snap]_vars

\* stop() has returned after a flush that wrote, with the reconnect timer of an
\* earlier close still to fire
C19_Witness ==
    /\ supPc = "stopped"
    /\ stopped
    /\ reconnectTimer # Null
    /\ ~credsTimer
    /\ credsSaved > 0
    /\ shutLog = <<"flush", "end">>

\* the owner has exited after stop() closed a live socket and the timer has fired
C19_WitnessExited ==
    /\ supPc = "exited"
    /\ lastClose = Some("connectionClosed")
    /\ sockState = "closed"
    /\ ~creating
    /\ reconnectTimer = Null
    /\ consecutiveFailures = 2

----------------------------------------------------------------------------
(* SpecPool: one call of asyncPool.  Indexes count from 0 as in the code;     *)
(* fn[i] says what the task of index i does: it fulfils with a value made of  *)
(* its item and index, or rejects with an Error with a message ("boom"), with *)
(* an Error with an empty message ("blank"), or with a string ("text").       *)

MaxItems == 3

MaxConcurrency == 3

\* the value a task fulfils with
ValueOf(item, i) == <<item, i>>

\* (err as Error).message || String(err)
ReasonOf(kind) ==
    LET err == CASE kind = "boom" -> [message |-> Some("boom"), string |-> "Error: boom"]
                 [] kind = "blank" -> [message |-> Some(""), string |-> "Error"]
                 [] kind = "text" -> [message |-> Null, string |-> "s"]
    IN  IF err.message # Null /\ err.message[1] # "" THEN err.message[1] ELSE err.string

\* a bug: the next index is read again after the call, not taken once
worker_noIncrement(st, w) ==
    IF st.nextIndex < Len(items)
    THEN [st EXCEPT !.workers[w] = Some(st.nextIndex),
                   !.calls[st.nextIndex] = @ + 1]
    ELSE [st EXCEPT !.workers[w] = Null]

\* worker() from the top of its loop to its await: it takes the next index and calls
\* fn, or ends
worker(st, w) ==
    IF st.nextIndex < Len(items)
    THEN [st EXCEPT !.nextIndex = @ + 1,
                   !.workers[w] = Some(st.nextIndex),
                   !.calls[st.nextIndex] = @ + 1]
    ELSE [st EXCEPT !.workers[w] = Null]

\* a bug: one worker for each item, whatever the concurrency
StartWorkers_perItem(n, k) ==
    LET st0 == [nextIndex |-> 0, workers |-> [w \in 1..n |-> Null],
                calls |-> [i \in 0..(n - 1) |-> 0]]
        run[w \in 0..n] == IF w = 0 THEN st0 ELSE worker(run[w - 1], w)
    IN  run[n]

\* asyncPool up to await Promise.all: Math.min(concurrency, items.length) workers,
\* each run to its first await
StartWorkers(n, k) ==
    LET st0 == [nextIndex |-> 0, workers |-> [w \in 1..k |-> Null],
                calls |-> [i \in 0..(n - 1) |-> 0]]
        run[w \in 0..k] == IF w = 0 THEN st0 ELSE worker(run[w - 1], w)
    IN  run[k]

PoolInit ==
    /\ items \in UNION {[1..n -> {"x", "y"}] : n \in 0..MaxItems}
    /\ concurrency \in 1..MaxConcurrency
    /\ fn \in [0..(Len(items) - 1) -> {"ok", "boom", "blank", "text"}]
    /\ LET st == StartWorkers(Len(items), Min(concurrency, Len(items)))
       IN  /\ nextIndex = st.nextIndex
           /\ workers = st.workers
           /\ calls = st.calls
    /\ completed = 0
    /\ results = [i \in 0..(Len(items) - 1) |-> Null]
    /\ progress = <<>>
    /\ returned = Null
    /\ ResolveIdle
    /\ SendIdle
    /\ LockIdle
    /\ StoreIdle
    /\ IngestIdle
    /\ DedupIdle
    /\ McpIdle
    /\ SupIdle
    /\ SshIdle
    /\ BackfillIdle
    /\ FtsIdle
    /\ HistIdle
    /\ SafeIdle
    /\ DaemonIdle
    /\ RemoteIdle

\* the task worker w awaits settles: the outcome is stored at its index, completed
\* and onProgress follow, and the worker goes round its loop
Settle(w) ==
    /\ w \in DOMAIN workers
    /\ workers[w] # Null
    /\ LET i == workers[w][1]
           item == items[i + 1]
           outcome == IF fn[i] = "ok"
                      THEN [index |-> i, item |-> item, status |-> "fulfilled",
                            value |-> Some(ValueOf(item, i)), reason |-> ""]
                      ELSE [index |-> i, item |-> item, status |-> "rejected",
                            value |-> Null, reason |-> ReasonOf(fn[i])]
           st == worker([nextIndex |-> nextIndex, workers |-> workers, calls |-> calls], w)
       IN  /\ results' = [results EXCEPT ![i] = Some(outcome)]
           /\ completed' = completed + 1
           /\ progress' = Append(progress, <<completed + 1, Len(items)>>)
           /\ nextIndex' = st.nextIndex
           /\ workers' = st.workers
           /\ calls' = st.calls
    /\ UNCHANGED <<items, concurrency, fn, returned, exceptPool>>

\* every worker has ended: Promise.all resolves and asyncPool returns results
PoolReturn ==
    /\ returned = Null
    /\ \A w \in DOMAIN workers : workers[w] = Null
    /\ returned' = Some(results)
    /\ UNCHANGED <<items, concurrency, fn, nextIndex, completed, results, workers, calls,
                   progress, exceptPool>>

PoolNext ==
    \/ \E w \in 1..MaxConcurrency : Settle(w)
    \/ PoolReturn

SpecPool == PoolInit /\ [][PoolNext]_vars

RECURSIVE SumTo(_, _)
SumTo(f, n) == IF n < 0 THEN 0 ELSE f[n] + SumTo(f, n - 1)

\* the tasks started and not yet settled, counted from the calls of fn and the
\* settlements
InFlight == SumTo(calls, Len(items) - 1) - completed

\* C21: at every moment of a run the tasks started and not yet settled number at
\* most the concurrency, and at most the items, in whatever order tasks settle.
C21_InFlightBounded ==
    /\ InFlight <= concurrency
    /\ InFlight <= Len(items)
    /\ InFlight = Cardinality({w \in DOMAIN workers : workers[w] # Null})

\* the bound met in the middle of a run: at concurrency 2 one of three items has
\* settled and the other two are in flight
C21_Witness ==
    /\ concurrency = 2
    /\ Len(items) = 3
    /\ completed = 1
    /\ InFlight = 2
    /\ nextIndex = 3

\* more items than workers allowed, all in flight at the start
C21_WitnessStart == concurrency = 1 /\ Len(items) = 3 /\ completed = 0 /\ InFlight = 1

----------------------------------------------------------------------------
(* SpecSsh: one call of spawnSsh.  An attempt ends with execFile's callback:  *)
(* err is "none" or err.code: an exit status, "ENOENT" when ssh could not be  *)
(* started, "null" for an err without a code, as after the 30 s timeout       *)
(* killed ssh; stderr is what ssh printed.                                    *)

MaxRetries == 2

\* a bug: every failure is retried, whatever ssh printed
TransientText_any(stderr) == TRUE

\* /connection reset|timed out|broken pipe/i.test(stderr)
TransientText(stderr) ==
    \E i \in 1..Len(stderr) :
        stderr[i] \in {"connection reset", "Connection reset", "timed out", "Timed out",
                       "broken pipe", "Broken pipe"}

SshInit ==
    /\ sshRetries0 \in 0..MaxRetries
    /\ sshRetries = sshRetries0
    /\ sshPc = "running"
    /\ sshAttempts = 1
    /\ sshLast = Null
    /\ sshOut = Null
    /\ ResolveIdle
    /\ SendIdle
    /\ LockIdle
    /\ StoreIdle
    /\ IngestIdle
    /\ DedupIdle
    /\ McpIdle
    /\ SupIdle
    /\ PoolIdle
    /\ BackfillIdle
    /\ FtsIdle
    /\ HistIdle
    /\ SafeIdle
    /\ DaemonIdle
    /\ RemoteIdle

\* execFile's callback: the exit code from err, then the retry timer or resolve
AttemptEnds(err, stdout, stderr) ==
    /\ sshPc = "running"
    /\ LET exitCode == IF err = "none" THEN "0" ELSE IF err = "null" THEN "1" ELSE err
           outcome == [stdout |-> stdout, stderr |-> stderr, exitCode |-> exitCode]
       IN  /\ sshLast' = Some(outcome)
           /\ IF sshRetries > 0 /\ exitCode # "0" /\ TransientText(stderr)
              THEN sshPc' = "timer" /\ UNCHANGED sshOut
              ELSE sshPc' = "resolved" /\ sshOut' = Some(outcome)
    /\ UNCHANGED <<sshRetries0, sshRetries, sshAttempts, exceptSsh>>

\* the 1000 ms timer: spawnSsh(args, retries - 1), whose outcome resolves this call
RetryTimer ==
    /\ sshPc = "timer"
    /\ sshPc' = "running"
    /\ sshRetries' = sshRetries - 1
    /\ sshAttempts' = sshAttempts + 1
    /\ UNCHANGED <<sshRetries0, sshLast, sshOut, exceptSsh>>

SshNext ==
    \/ \E err \in {"none", "1", "255", "null", "ENOENT"}, stdout \in {"", "out"},
          stderr \in {<<>>, <<"ssh: ", "Connection reset", " by peer">>,
                      <<"Operation ", "timed out">>, <<"Broken pipe">>,
                      <<"Permission denied">>, <<"Connection refused">>} :
          AttemptEnds(err, stdout, stderr)
    \/ RetryTimer

SpecSsh == SshInit /\ [][SshNext]_vars /\ WF_vars(SshNext)

\* what ssh prints when the network failed in passing
C22_Transient ==
    {<<"ssh: ", "Connection reset", " by peer">>, <<"Operation ", "timed out">>,
     <<"Broken pipe">>}

\* C22: a remote command execution ends with a definite outcome (stdout, stderr,
\* exit code) after at most retries + 1 attempts; an attempt is followed by another
\* only when it failed with a transient network error and retries remained; a
\* success or another failure is never retried, and what the caller gets is the
\* outcome of the last attempt.
C22_BoundedRetryDefiniteOutcome ==
    /\ [](sshAttempts + sshRetries = sshRetries0 + 1 /\ sshRetries >= 0)
    /\ [][sshPc' = "timer" =>
             /\ sshRetries > 0
             /\ sshLast'[1].exitCode # "0"
             /\ sshLast'[1].stderr \in C22_Transient]_vars
    /\ [][sshAttempts' # sshAttempts => sshPc = "timer" /\ sshOut = Null]_vars
    /\ [](sshPc = "resolved" =>
             /\ sshOut = sshLast
             /\ sshOut # Null
             /\ DOMAIN sshOut[1] = {"stdout", "stderr", "exitCode"})
    /\ [][sshOut # Null => sshOut' = sshOut]_vars
    /\ <>(sshPc = "resolved")

\* the default call: one retry used on a reset connection, the second attempt's
\* failure surfaced
C22_Witness ==
    /\ sshRetries0 = 1
    /\ sshAttempts = 2
    /\ sshPc = "resolved"
    /\ sshOut[1].exitCode = "255"
    /\ sshOut[1].stderr = <<"Permission denied">>

----------------------------------------------------------------------------
(* SpecBackfill: one call of backfillHistory for one conversation.  The rows  *)
(* it counts before and after in the store are written by the listener and    *)
(* are not part of this component; what is followed is the waiter.            *)

MaxCount == 5
MaxChunk == 3

BackfillInit ==
    /\ bfPc = "start"
    /\ bfCount \in 1..MaxCount
    /\ totalNew = 0
    /\ bfHandler = FALSE
    /\ bfTimer = FALSE
    /\ bfResolved = FALSE
    /\ bfTimedOut = FALSE
    /\ bfLog = <<>>
    /\ ResolveIdle
    /\ SendIdle
    /\ LockIdle
    /\ StoreIdle
    /\ IngestIdle
    /\ DedupIdle
    /\ McpIdle
    /\ SupIdle
    /\ PoolIdle
    /\ SshIdle
    /\ FtsIdle
    /\ HistIdle
    /\ SafeIdle
    /\ DaemonIdle
    /\ RemoteIdle

\* backfillHistory up to its first await: no reference message throws; otherwise
\* createBackfillWaiter registers the handler and starts the timer, then
\* fetchMessageHistory is called
backfillHistory(hasOldest) ==
    /\ bfPc = "start"
    /\ IF ~hasOldest
       THEN bfPc' = "threw" /\ UNCHANGED <<bfHandler, bfTimer, bfLog>>
       ELSE /\ bfHandler' = TRUE
            /\ bfTimer' = TRUE
            /\ bfLog' = <<"on", "fetchMessageHistory">>
            /\ bfPc' = "fetching"
    /\ UNCHANGED <<bfCount, totalNew, bfResolved, bfTimedOut, exceptBackfill>>

\* fetchMessageHistory settles: the request is out, or it rejected and so does the call
FetchSettles(ok) ==
    /\ bfPc = "fetching"
    /\ bfPc' = IF ok THEN "waiting" ELSE "threw"
    /\ UNCHANGED <<bfCount, totalNew, bfHandler, bfTimer, bfResolved, bfTimedOut, bfLog,
                   exceptBackfill>>

\* a bug: the handler resolves without clearing the timer
handler_timerKept(forChat) ==
    /\ bfHandler
    /\ totalNew' = totalNew + forChat
    /\ IF totalNew' >= bfCount
       THEN bfHandler' = FALSE /\ bfResolved' = TRUE /\ UNCHANGED bfTimer
       ELSE UNCHANGED <<bfTimer, bfHandler, bfResolved>>
    /\ UNCHANGED <<bfPc, bfCount, bfTimedOut, bfLog, exceptBackfill>>

\* a messaging-history.set event reaches the registered handler with forChat messages
\* of the conversation
handler(forChat) ==
    /\ bfHandler
    /\ totalNew' = totalNew + forChat
    /\ IF totalNew' >= bfCount
       THEN bfTimer' = FALSE /\ bfHandler' = FALSE /\ bfResolved' = TRUE
       ELSE UNCHANGED <<bfTimer, bfHandler, bfResolved>>
    /\ UNCHANGED <<bfPc, bfCount, bfTimedOut, bfLog, exceptBackfill>>

\* the timeout callback
BackfillTimeout ==
    /\ bfTimer
    /\ bfTimer' = FALSE
    /\ bfHandler' = FALSE
    /\ bfResolved' = TRUE
    /\ bfTimedOut' = TRUE
    /\ UNCHANGED <<bfPc, bfCount, totalNew, bfLog, exceptBackfill>>

\* await promise is over: the counts are read and the result returned
BackfillReturns ==
    /\ bfPc = "waiting"
    /\ bfResolved
    /\ bfPc' = "done"
    /\ UNCHANGED <<bfCount, totalNew, bfHandler, bfTimer, bfResolved, bfTimedOut, bfLog,
                   exceptBackfill>>

BackfillNext ==
    \/ \E hasOldest \in BOOLEAN : backfillHistory(hasOldest)
    \/ \E ok \in BOOLEAN : FetchSettles(ok)
    \/ \E forChat \in 0..MaxChunk : handler(forChat)
    \/ BackfillTimeout
    \/ BackfillReturns

SpecBackfill ==
    /\ BackfillInit
    /\ [][BackfillNext]_vars
    /\ WF_vars(\E ok \in BOOLEAN : FetchSettles(ok))
    /\ WF_vars(BackfillTimeout)
    /\ WF_vars(BackfillReturns)

\* C23: the handler is registered before the history request is issued; once the
\* request is out the call completes, when count messages of the conversation have
\* been received or when the timeout elapsed, and when it completes the handler is
\* unregistered and the timer not pending.
C23_RegisteredFirstAlwaysCompletes ==
    /\ [](bfPc \in {"fetching", "waiting", "done"} =>
             bfLog = <<"on", "fetchMessageHistory">>)
    /\ [](bfPc = "done" =>
             /\ ~bfHandler
             /\ ~bfTimer
             /\ totalNew >= bfCount \/ bfTimedOut)
    /\ [](totalNew >= bfCount /\ bfLog # <<>> => bfResolved /\ ~bfHandler /\ ~bfTimer)
    /\ [](bfResolved /\ ~bfTimedOut => totalNew >= bfCount)
    /\ (bfPc = "waiting" ~> bfPc = "done")

\* completed on the second chunk, before the timeout
C23_Witness ==
    bfPc = "done" /\ bfCount = 3 /\ totalNew = 4 /\ ~bfTimedOut

\* completed on the timeout with one message received
C23_WitnessTimeout ==
    bfPc = "done" /\ bfCount = 3 /\ totalNew = 1 /\ bfTimedOut

----------------------------------------------------------------------------
(* SpecRevoke: the listener over a store that already holds messages, written *)
(* by an earlier run under whatever policy was then in force.                 *)

MaxRevokes == 1

\* the stores of at most two messages, each in the allowed group or in a direct chat
StoredMessages ==
    {bulkUpsertMessages({}, b) :
        b \in RowBatches(MsgCols(MsgIds, {JidGroupA, JidDm}, {Some("b1")}, {"text"},
                                 {Null}, {1}, {Some("r")}), 2)}

RevokeUpdates ==
    RowBatches([remoteJid : {Some(JidGroupA), Some(JidDm)},
                id : {Null, Some(<<"m1">>), Some(<<"m2">>)}, revoked : BOOLEAN],
               MaxRevokes)

RevokeInit ==
    /\ listenerConfig \in ListenerPolicies
    /\ diskCfg = listenerConfig
    /\ messages \in StoredMessages
    /\ chats = {}
    /\ storeOp = "none"
    /\ storeArg = Null
    /\ dedup = <<>>
    /\ contacts = {}
    /\ participants = {}
    /\ forwarded = <<>>
    /\ qOut = Null
    /\ nEvents = 0
    /\ ResolveIdle
    /\ SendIdle
    /\ LockIdle
    /\ DedupIdle
    /\ McpIdle
    /\ SupIdle
    /\ PoolIdle
    /\ SshIdle
    /\ BackfillIdle
    /\ FtsIdle
    /\ HistIdle
    /\ SafeIdle
    /\ DaemonIdle
    /\ RemoteIdle

RevokeNext ==
    \/ \E updates \in RevokeUpdates : MessagesUpdate(updates)
    \/ \E batch \in RowBatches(WAMessages({Some(JidGroupA), Some(JidDm)}, {<<"m1">>},
                                          {Some("n")}, {Some("b2")}, {2}), 1) :
          MessagesUpsert(batch, "notify")

SpecRevoke == RevokeInit /\ [][RevokeNext]_vars

\* the row a revocation leaves
C24_Blanked(r) == [r EXCEPT !.body = Null, !.type = "deleted", !.raw = Null]

\* the updates of a batch that revoke the message id
C24_Revoking(updates, id) ==
    {i \in 1..Len(updates) : updates[i].revoked /\ updates[i].id = Some(id)}

\* C24 as stated: after a revocation event for a stored message the row is there
\* with body and raw null and type deleted, the number of rows is unchanged and no
\* other row is modified.
C24_RevocationBlanksRow ==
    [][\A updates \in RevokeUpdates : MessagesUpdate(updates) =>
          /\ Cardinality(messages') = Cardinality(messages)
          /\ \A r \in messages :
                IF \E i \in C24_Revoking(updates, r.id) :
                      updates[i].remoteJid = Some(r.chat_jid)
                THEN C24_Blanked(r) \in messages'
                ELSE r \in messages' \/ C24_Revoking(updates, r.id) # {}]_vars

\* C24, amended: a revocation event never removes a row or changes the number of
\* rows; the row with the event's message id is left with body and raw null and type
\* deleted, every other column as it was, when the event's conversation is one the
\* listener collects; it is left as it was when the conversation is not collected;
\* no other row is modified.
C24_RevocationBlanksRowWhenCollected ==
    [][\A updates \in RevokeUpdates : MessagesUpdate(updates) =>
          /\ Cardinality(messages') = Cardinality(messages)
          /\ \A r \in messages :
                IF \E i \in C24_Revoking(updates, r.id) :
                      shouldCollect(updates[i].remoteJid[1], listenerConfig)
                THEN C24_Blanked(r) \in messages'
                ELSE r \in messages']_vars

\* a revoked message next to an untouched one
C24_Witness ==
    /\ nEvents = 1
    /\ \E r \in messages :
          r.id = <<"m1">> /\ r.type = "deleted" /\ r.body = Null /\ r.raw = Null
                          /\ r.chat_jid = JidGroupA /\ r.timestamp = 1
    /\ \E r \in messages : r.id = <<"m2">> /\ r.type = "text" /\ r.body = Some("b1")

----------------------------------------------------------------------------
\* C25: a group metadata refresh leaves the stored participants of the group equal to
\* the refreshed membership, other groups untouched; here for the membership-change
\* notification: after members were added to a collected group they are among its
\* stored participants, and after they were removed they are not.
C25_MembershipChangeRefreshesSnapshot ==
    [][\A id \in {JidGroupA, JidGroupB}, action \in {"add", "remove"} :
          GroupParticipantsUpdate(id, <<JidDm>>, action)
          /\ shouldCollect(id, listenerConfig) =>
             ((action = "add") <=>
              \E e \in participants' : e.group_jid = id /\ e.participant_jid = JidDm)]_vars

----------------------------------------------------------------------------
(* SpecFts: searchMessages over a database file that a sync may replace.  A   *)
(* file written by the schema without the index stays without it: both        *)
(* schemas are version 1, so migrate does nothing on it.  A body is one       *)
(* token and the text match is equality on it; the rows carry no sender, so   *)
(* the sender filter is not exercised.                                        *)

MaxLimit == 2

FtsInit ==
    /\ diskFts \in BOOLEAN
    /\ dbOpen = Null
    /\ ftsAvailable = Null
    /\ searchRes = Null
    /\ messages \in StoredMessages
    /\ chats = {}
    /\ storeOp = "none"
    /\ storeArg = Null
    /\ ResolveIdle
    /\ SendIdle
    /\ LockIdle
    /\ IngestIdle
    /\ DedupIdle
    /\ McpIdle
    /\ SupIdle
    /\ PoolIdle
    /\ SshIdle
    /\ BackfillIdle
    /\ HistIdle
    /\ SafeIdle
    /\ DaemonIdle
    /\ RemoteIdle

\* getDb(): the handle, opened from the file on disk when there is none
getDb == IF dbOpen = Null THEN Some(diskFts) ELSE dbOpen

\* canUseFts answers from the module-level cache when it is set; otherwise it probes
\* the handle, and searchMessages below records the answer in the cache
canUseFts(db) == IF ftsAvailable # Null THEN ftsAvailable ELSE db

\* searchMessages(query, {chatJid, limit}): the MATCH query when canUseFts, which
\* throws on a handle without the index; otherwise the LIKE query
searchMessages(query, chatJid, limit) ==
    LET db == getDb
        useFts == canUseFts(db)
        matching == {m \in messages : /\ m.body = Some(query)
                                      /\ (chatJid = Null \/ m.chat_jid = chatJid[1])}
    IN  /\ dbOpen' = db
        /\ ftsAvailable' = useFts
        /\ IF useFts[1] /\ ~db[1]
           THEN searchRes' = Some([threw |-> TRUE, rows |-> {}, snippet |-> "none"])
           ELSE \E rows \in SUBSET matching :
                   /\ Cardinality(rows) = Min(limit, Cardinality(matching))
                   /\ searchRes' = Some([threw |-> FALSE, rows |-> rows,
                                         snippet |-> IF useFts[1] THEN "text"
                                                     ELSE "null"])
        /\ UNCHANGED <<diskFts, exceptFts>>

\* closeDb(), and reloadDb() which only calls it
closeDb ==
    /\ dbOpen # Null
    /\ dbOpen' = Null
    /\ UNCHANGED <<diskFts, ftsAvailable, searchRes, exceptFts>>

\* syncDb replaced the file on disk with the replica, which has the index or not
SyncReplacesFile(hasIndex) ==
    /\ diskFts' = hasIndex
    /\ UNCHANGED <<dbOpen, ftsAvailable, searchRes, exceptFts>>

FtsNext ==
    \/ \E query \in {"b1", "zz"}, chatJid \in {Null, Some(JidGroupA)},
          limit \in 1..MaxLimit : searchMessages(query, chatJid, limit)
    \/ closeDb
    \/ \E hasIndex \in BOOLEAN : SyncReplacesFile(hasIndex)

SpecFts == FtsInit /\ [][FtsNext]_vars

\* C26: searchMessages never fails because the index is missing from the database
\* that is open, also after the file was replaced and the database reloaded: it
\* falls back to the substring query, whose rows carry a null snippet.
C26_FallsBackWheneverIndexMissing ==
    searchRes # Null =>
        /\ ~searchRes[1].threw
        /\ dbOpen = Some(FALSE) => searchRes[1].snippet = "null"

\* the half of C26 that holds: a search that returns gives at most limit rows of
\* the store, and the substring query is the one used when the probe found no index
C26_ResultShape ==
    searchRes # Null /\ ~searchRes[1].threw =>
        /\ searchRes[1].rows \subseteq messages
        /\ Cardinality(searchRes[1].rows) <= MaxLimit
        /\ searchRes[1].snippet = (IF ftsAvailable[1] THEN "text" ELSE "null")

----------------------------------------------------------------------------
(* SpecMcpPolicy: one MCP server session holding the transport.  The server  *)
(* loads the config once, at start, and hands it to the tools: sendCfg is    *)
(* that object, diskCfg the config file.                                      *)

McpPolicyInit ==
    /\ diskCfg \in ListenerPolicies \cup {Policy("read", <<>>)}
    /\ sendCfg = diskCfg
    /\ listenerConfig = diskCfg
    /\ sockLog = <<>>
    /\ sendResult = Null
    /\ dedup = <<>>
    /\ contacts = {}
    /\ participants = {}
    /\ forwarded = <<>>
    /\ qOut = Null
    /\ nEvents = 0
    /\ ResolveIdle
    /\ LockIdle
    /\ StoreIdle
    /\ DedupIdle
    /\ McpIdle
    /\ SupIdle
    /\ PoolIdle
    /\ SshIdle
    /\ BackfillIdle
    /\ FtsIdle
    /\ HistIdle
    /\ SafeIdle
    /\ DaemonIdle
    /\ RemoteIdle

\* the tool wu_constraints_set: loadConfig(), chats[jid] = { mode }, saveConfig
wu_constraints_set(jid, mode) ==
    LET constraints == ensureConstraints(diskCfg)
    IN  Saved(Policy(constraints.default, SetChat(constraints.chats, jid, mode)))

\* the tool wu_constraints_remove: delete chats[jid], saveConfig
wu_constraints_remove(jid) ==
    LET constraints == ensureConstraints(diskCfg)
    IN  Saved(IF HasKey(constraints.chats, jid)
              THEN Policy(constraints.default, DeleteChat(constraints.chats, jid))
              ELSE diskCfg)

\* the tool wu_constraints_default with a mode
wu_constraints_default(mode) ==
    LET constraints == ensureConstraints(diskCfg)
    IN  Saved(Policy(mode, constraints.chats))

\* wu_messages_send and wu_react with a socket call sendText, sendMedia and
\* sendReaction with the config the server was started with, and return their error
\* as the tool's error
McpPolicyNext ==
    \/ \E mode \in Modes : wu_constraints_set(JidGroupA, mode)
    \/ wu_constraints_remove(JidGroupA)
    \/ \E mode \in Modes : wu_constraints_default(mode)
    \/ \E to \in {JidGroupA, JidDm} : sendText(to)
    \/ \E to \in {JidGroupA, JidDm}, fileReadable \in BOOLEAN : sendMedia(to, fileReadable)
    \/ \E chat \in {JidGroupA, JidDm} : sendReaction(chat)

SpecMcpPolicy == McpPolicyInit /\ [][McpPolicyNext]_vars

\* C27: within one server session a send or a reaction is allowed exactly when the
\* policy in force, the one the constraint tools last wrote, gives its conversation
\* the level full; after a change to read or none it is refused as a constraint
\* violation.
C27_SendFollowsPolicyInForce ==
    [][\A to \in {JidGroupA, JidDm} :
          sendText(to) \/ sendReaction(to) =>
             IF LevelOf(to, diskCfg) = "full"
             THEN sendResult'[1].error = "none"
             ELSE sendResult'[1].error = "constraint" /\ sockLog' = sockLog]_vars

----------------------------------------------------------------------------
(* SpecReconnect: the listener of the daemon across reconnects.  Each open of *)
(* the supervised connection calls onReady with the new socket, and onReady   *)
(* calls startListener, which registers its handlers on that socket with a    *)
(* deduplicator of its own.                                                   *)

ListenerRestart ==
    /\ dedup' = <<>>
    /\ UNCHANGED <<messages, chats, listenerConfig, diskCfg, contacts, participants,
                   forwarded, qOut, nEvents, exceptIngest>>

ReconnectBatches ==
    RowBatches(WAMessages({Some(JidGroupA), Some(JidDm)}, MsgIds, {Some("n")},
                          {Some("b1")}, {1}), MaxBatch)

ReconnectNext ==
    \/ \E batch \in ReconnectBatches, type \in {"notify", "append"} :
          MessagesUpsert(batch, type)
    \/ \E updates \in RowBatches([remoteJid : {Some(JidGroupA)}, id : {Some(<<"m1">>)},
                                  revoked : BOOLEAN], MaxBatch) : MessagesUpdate(updates)
    \/ ListenerRestart

SpecReconnect == ListenerInit /\ [][ReconnectNext]_vars

\* C28: in one process, across reconnects, a live message event whose (conversation,
\* id) was already processed, and is far from being the 10000th most recent, is not
\* processed again: it writes nothing to the store and reaches no live subscriber.
C28_NoReprocessingAcrossReconnects ==
    [][\A batch \in ReconnectBatches, type \in {"notify", "append"} :
          /\ MessagesUpsert(batch, type)
          /\ \A i \in 1..Len(batch) :
                \E r \in messages : r.id = batch[i].id /\ Some(r.chat_jid) = batch[i].remoteJid
          => messages' = messages /\ forwarded' = forwarded]_vars

----------------------------------------------------------------------------
(* SpecHistory: history batches, any of whose three transactions may throw *)

MaxHistory == 2

HistoryNext ==
    \E hMessages \in RowBatches(WAMessages({Some(JidGroupA)}, {<<"m1">>}, {Null},
                                           {Some("b1")}, {1}), MaxHistory),
       hChats \in RowBatches([id : {Some(JidGroupA), Some(JidDm)}, name : {Some("n1")},
                              conversationTimestamp : {Some(1)}], MaxHistory),
       hContacts \in RowBatches([id : {Some(JidDm)}, notify : {Null},
                                 name : {Some("s")}], MaxHistory),
       failIn \in {"none", "chats", "contacts", "messages"}, failAt \in 1..MaxHistory :
       HistoryBatch(hMessages, hChats, hContacts, failIn, failAt)

SpecHistory == ListenerInit /\ [][HistoryNext]_vars

\* C29: on a history batch each collection is written in one transaction of its own:
\* when a write of a collection fails none of that collection's rows of the batch is
\* there afterwards, and the collections written before it hold all of theirs.
C29_AtomicPerCollection ==
    [][nEvents' # nEvents =>
          LET rows == histRows'[1]
          IN  /\ chats' = IF histErr' = Some("chats") THEN chats
                          ELSE bulkUpsertChats(chats, rows.chatRows)
              /\ contacts' = IF histErr' \in {Some("chats"), Some("contacts")} THEN contacts
                             ELSE bulkUpsertContacts(contacts, rows.contactRows)
              /\ messages' = IF histErr' # Null THEN messages
                             ELSE bulkUpsertMessages(messages, rows.msgRows)]_vars

\* the contacts' transaction threw on its second row: the conversations of the batch
\* are stored, no contact and no message is
C29_Witness ==
    /\ nEvents = 1
    /\ histErr = Some("contacts")
    /\ Len(histRows[1].contactRows) = 2
    /\ Len(histRows[1].msgRows) = 1
    /\ Cardinality(chats) = 2
    /\ contacts = {}
    /\ messages = {}

\* C30: on a history batch nothing is persisted whose id resolves to the level none:
\* no conversation, no contact and no message.
C30_HistoryFilteredByCanCollect ==
    [][nEvents' # nEvents =>
          /\ \A c \in chats' \ chats : shouldCollect(c.jid, listenerConfig)
          /\ \A c \in contacts' \ contacts : shouldCollect(c.jid, listenerConfig)
          /\ \A m \in messages' \ messages : shouldCollect(m.chat_jid, listenerConfig)]_vars

\* the part of C30 that holds: the conversations and the messages are filtered
C30_ChatsAndMessagesFiltered ==
    [][nEvents' # nEvents =>
          /\ \A c \in chats' \ chats : shouldCollect(c.jid, listenerConfig)
          /\ \A m \in messages' \ messages : shouldCollect(m.chat_jid, listenerConfig)]_vars

----------------------------------------------------------------------------
(* SpecBulk: the bulk upserts of the three tables, in any order, from the     *)
(* empty store                                                               *)

BulkMsgArgs == {r \in MsgBulkArgs : r.media_path = Null}

BulkChatArgs == {r \in ChatBulkArgs : r.jid = JidGroupA /\ r.last_message_at # Some(2)}

ContactArgs ==
    [jid : {JidDm}, phone : {Some(<<"a">>)}, push_name : {Null, Some("p")},
     saved_name : {Null}, is_business : {0}]

BulkUpsertContacts(rows) ==
    /\ contacts' = (IF rows = <<>> THEN contacts ELSE bulkUpsertContacts(contacts, rows))
    /\ storeOp' = "bulkUpsertContacts"
    /\ storeArg' = Null
    /\ UNCHANGED <<messages, chats, listenerConfig, diskCfg, dedup, participants,
                   forwarded, qOut, nEvents, resolveVars, sendVars, lockVars,
                   dedupVars, mcpVars, supVars, poolVars, sshVars, backfillVars,
                   ftsVars, histVars, safeVars, daemonVars, remoteVars>>

BulkNext ==
    \/ \E rows \in RowBatches(BulkMsgArgs, MaxBulk) : BulkUpsertMessages(rows)
    \/ \E rows \in RowBatches(BulkChatArgs, MaxBulk) : BulkUpsertChats(rows)
    \/ \E rows \in RowBatches(ContactArgs, MaxBulk) : BulkUpsertContacts(rows)

SpecBulk == MessagesInit /\ [][BulkNext]_vars

\* the single-row statement applied to every row of the list, first to last
SingleRowPath(upsertOne(_, _), table, rows) ==
    LET step[i \in 0..Len(rows)] ==
            IF i = 0 THEN table ELSE upsertOne(step[i - 1], rows[i])
    IN  step[Len(rows)]

DistinctIds(rows) == \A i, j \in 1..Len(rows) : rows[i].id = rows[j].id => i = j

----------------------------------------------------------------------------
(* SpecReaction: "messages.reaction" events of up to MaxReactions reactions  *)
(* on one message, by two reactors                                           *)

MaxReactions == 2

JidDmB == <<"b", "@", "s.whatsapp.net">>

\* key is the key of the message reacted to, reaction.key the key of the
\* reaction message itself: its id (absent, or one the reactor chose) and its
\* participant, the reactor
ReactionArgs ==
    {r \in [remoteJid : {Some(JidGroupA), Some(JidDm)}, id : {<<"m1">>},
            reactionKeyId : {Null, Some(<<"kA1">>), Some(<<"kA2">>), Some(<<"kB1">>)},
            participant : {Some(JidDm), Some(JidDmB)},
            text : {Null, Some("x")}, timestamp : {1}] :
        /\ r.reactionKeyId \in {Some(<<"kA1">>), Some(<<"kA2">>)}
               => r.participant = Some(JidDm)
        /\ r.reactionKeyId = Some(<<"kB1">>) => r.participant = Some(JidDmB)}

ReactionNext ==
    \E reactions \in RowBatches(ReactionArgs, MaxReactions) : MessagesReaction(reactions)

SpecReaction == ListenerInit /\ [][ReactionNext]_vars

\* C32: two reactions on one message of a collected conversation are stored
\* under one id, in a single row, exactly when they have the same reactor and
\* the same text; reactions of different reactors have different ids even when
\* their text is the same
C32_ReactionIdFromTargetReactorText ==
    [][\A r1, r2 \in ReactionArgs :
          (/\ messages = {}
           /\ MessagesReaction(<<r1, r2>>)
           /\ r1.remoteJid = r2.remoteJid
           /\ shouldCollect(r1.remoteJid[1], listenerConfig))
          => /\ (ReactionId(r1) = ReactionId(r2))
                    <=> (r1.participant = r2.participant /\ r1.text = r2.text)
             /\ (Cardinality(messages') = 1) <=> (ReactionId(r1) = ReactionId(r2))]_vars

----------------------------------------------------------------------------
(* SpecLive: live and replayed "messages.upsert" events and history batches  *)
(* on one socket                                                             *)

LiveBatches ==
    RowBatches(WAMessages({Null, Some(JidGroupA), Some(JidDm), Some(JidStatus)},
                          MsgIds, {Some("n")}, {Some("b1")}, {1}), MaxBatch)

LiveNext ==
    \/ \E batch \in LiveBatches, type \in {"notify", "append"} :
          MessagesUpsert(batch, type)
    \/ \E hMessages \in RowBatches(WAMessages({Some(JidDm), Some(JidGroupA)}, MsgIds,
                                              {Null}, {Null}, {1}), MaxBatch) :
          MessagingHistorySet(hMessages, <<>>, <<>>)

SpecLive == ListenerInit /\ [][LiveNext]_vars

\* the messages of a batch that may be passed on: of a conversation that is
\* collected and is no pseudo-conversation, and whose key the deduplicator did
\* not hold when the event arrived
Eligible(batch) ==
    {i \in 1..Len(batch) :
        /\ batch[i].remoteJid # Null
        /\ ~isStatusOrBroadcast(batch[i].remoteJid[1])
        /\ shouldCollect(batch[i].remoteJid[1], listenerConfig)
        /\ \A k \in 1..Len(dedup) : dedup[k] # <<batch[i].remoteJid[1], batch[i].id>>}

\* C33: the live-subscriber callback is called only in a "messages.upsert"
\* event of type notify, only for a message of that event whose conversation
\* is collected, is not status/broadcast and whose key was not yet in the
\* deduplicator, at most once per such key, and only when the message is in
\* the store; a history batch and an event of another type call it for nothing
C33_CallbackOnlyForNewLiveCollected ==
    [][forwarded' # forwarded =>
          /\ \E batch \in LiveBatches : MessagesUpsert(batch, "notify")
          /\ \A batch \in LiveBatches :
                MessagesUpsert(batch, "notify") =>
                    /\ Len(forwarded') > Len(forwarded)
                    /\ SubSeq(forwarded', 1, Len(forwarded)) = forwarded
                    /\ Len(forwarded') - Len(forwarded)
                           <= Cardinality({<<batch[i].remoteJid, batch[i].id>> :
                                              i \in Eligible(batch)})
                    /\ \A n \in (Len(forwarded) + 1)..Len(forwarded') :
                           /\ \E i \in Eligible(batch) : batch[i].id = forwarded'[n]
                           /\ \E m \in messages' : m.id = forwarded'[n]]_vars

\* a live message was passed on, and a later event was handled without
\* passing anything on
C33_Witness ==
    /\ Len(forwarded) = 1
    /\ nEvents = 2
    /\ \E m \in messages : m.id = forwarded[1]
    /\ Len(dedup) = 1

----------------------------------------------------------------------------
(* SpecSafe: "messages.upsert" events whose handler may throw, in a store     *)
(* write or in the subscriber's callback                                      *)

\* a bug: the exception is thrown on to the emitter
safeHandler_rethrow(name, threw) ==
    [logged |-> <<>>, escaped |-> threw]

\* try { fn(...args) } catch (err) { logger.error({ err, handler: name }, ...) }
safeHandler(name, threw) ==
    [logged |-> IF threw THEN <<name>> ELSE <<>>, escaped |-> FALSE]

\* the "messages.upsert" handler when the statement failIn of the message failAt
\* throws: the messages before it are handled, of the message itself what comes
\* before the statement is done, and the throw leaves the loop
MessagesUpsertThrows(batch, type, failAt, failIn) ==
    LET st == ListenerState
        cfg == listenerConfig
        Done(stmt) ==
            CASE failIn = "upsertMessage" -> FALSE
              [] failIn = "upsertChat" -> stmt = "upsertMessage"
              [] failIn = "upsertContact" -> stmt \in {"upsertMessage", "upsertChat"}
              [] failIn = "onMessage" -> TRUE
        Reached(s, msg) ==
            /\ msg.remoteJid # Null
            /\ ~isStatusOrBroadcast(msg.remoteJid[1])
            /\ shouldCollect(msg.remoteJid[1], cfg)
            /\ ~FifoDedup_has(s.dedup, <<msg.remoteJid[1], msg.id>>)
        loop[i \in 0..failAt] ==
            IF i = 0 THEN st
            ELSE LET s == loop[i - 1]
                     msg == batch[i]
                     whole == i < failAt
                 IN  IF ~Reached(s, msg) THEN s
                     ELSE LET jid == msg.remoteJid[1]
                              parsed == parseMessage(msg)[1]
                          IN  [s EXCEPT
                                !.dedup = FifoDedup_add(s.dedup, <<jid, msg.id>>,
                                                        ListenerDedupSize),
                                !.messages =
                                    IF whole \/ Done("upsertMessage")
                                    THEN upsertMessage(s.messages, parsedToRow(parsed))
                                    ELSE s.messages,
                                !.chats =
                                    IF whole \/ Done("upsertChat")
                                    THEN upsertChat(s.chats,
                                            [jid |-> jid, name |-> Null,
                                             type |-> ChatTypeOf(jid),
                                             participant_count |-> Null,
                                             description |-> Null,
                                             last_message_at |-> Some(parsed.timestamp)])
                                    ELSE s.chats,
                                !.contacts =
                                    IF /\ whole \/ Done("upsertContact")
                                       /\ parsed.senderJid # Null
                                       /\ parsed.senderName # Null
                                    THEN upsertContact(s.contacts,
                                            [jid |-> parsed.senderJid[1],
                                             phone |-> Some(PhoneOf(parsed.senderJid[1])),
                                             push_name |-> parsed.senderName,
                                             saved_name |-> Null, is_business |-> 0])
                                    ELSE s.contacts,
                                !.forwarded =
                                    IF type = "notify" /\ (whole \/ failIn = "onMessage")
                                    THEN Append(s.forwarded, parsed.id)
                                    ELSE s.forwarded]
        out == safeHandler("messages.upsert", TRUE)
    IN  /\ nEvents < MaxEvents
        /\ failAt \in 1..Len(batch)
        /\ Reached(loop[failAt - 1], batch[failAt])
        /\ failIn = "onMessage" => type = "notify"
        /\ failIn = "upsertContact" =>
               LET parsed == parseMessage(batch[failAt])[1]
               IN  parsed.senderJid # Null /\ parsed.senderName # Null
        /\ nEvents' = nEvents + 1
        /\ messages' = loop[failAt].messages
        /\ chats' = loop[failAt].chats
        /\ contacts' = loop[failAt].contacts
        /\ dedup' = loop[failAt].dedup
        /\ forwarded' = loop[failAt].forwarded
        /\ qOut' = Null
        /\ handlerErrors' = handlerErrors \o out.logged
        /\ escaped' = out.escaped
        /\ UNCHANGED <<listenerConfig, diskCfg, participants, resolveVars, sendVars,
                       lockVars, storeOp, storeArg, dedupVars, mcpVars, supVars,
                       poolVars, sshVars, backfillVars, ftsVars, histVars,
                       daemonVars, remoteVars>>

\* the emitter calls the listener of a process that no uncaught exception ended
Delivered(batch, type) ==
    /\ ~escaped
    /\ MessagesUpsert(batch, type)

SafeBatches ==
    RowBatches(WAMessages({Some(JidGroupA), Some(JidDm), Some(JidStatus)}, {<<"m1">>},
                          {Some("n")}, {Some("b1")}, {1, 2}), MaxBatch)

Statements == {"upsertMessage", "upsertChat", "upsertContact", "onMessage"}

SafeNext ==
    \/ \E batch \in SafeBatches, type \in {"notify", "append"} : Delivered(batch, type)
    \/ \E batch \in SafeBatches, type \in {"notify", "append"}, failAt \in 1..MaxBatch,
          failIn \in Statements :
          ~escaped /\ MessagesUpsertThrows(batch, type, failAt, failIn)

SpecSafe == ListenerInit /\ [][SafeNext]_vars

\* C34: an exception thrown in an ingestion handler, by a store write or by the
\* subscriber's callback, is logged and does not reach the emitter, and each
\* event that comes after it is delivered to its handler
C34_HandlerErrorsContained ==
    /\ [](~escaped)
    /\ [](nEvents < MaxEvents =>
             \A batch \in SafeBatches : ENABLED Delivered(batch, "notify"))
    /\ [][\A batch \in {b \in SafeBatches : Len(b) = 1}, type \in {"notify", "append"},
             failIn \in Statements :
             MessagesUpsertThrows(batch, type, 1, failIn) =>
                 handlerErrors' = Append(handlerErrors, "messages.upsert")]_vars

\* the first event's handler threw in its store write, which was logged; the
\* event after it was handled and its message stored
C34_Witness ==
    /\ handlerErrors = <<"messages.upsert">>
    /\ dedup = <<<<JidDm, <<"m1">>>>, <<JidGroupA, <<"m1">>>>>>
    /\ {m.chat_jid : m \in messages} = {JidGroupA}
    /\ nEvents = 2

\* C37: the deduplicator holds the key of a live message only when the write of
\* that message succeeded, so that a message whose write failed is stored when
\* it is delivered again: every key held has its message in the store
C37_KeyHeldOnlyAfterWrite ==
    \A k \in 1..Len(dedup) : \E m \in messages : m.id = dedup[k][2]

\* C36: a row marked deleted stays blank whatever is upserted under its id
\* afterwards: every row of type deleted has a null body and a null raw payload
C36_DeletionStableUnderReplay ==
    \A m \in messages : m.type = "deleted" => m.body = Null /\ m.raw = Null

----------------------------------------------------------------------------
\* a daemon's connection has just closed as replaced by another session, with
\* stop() not called
C35_ReplacedClose ==
    /\ supDaemon
    /\ ~stopped
    /\ sockState \in {"connecting", "open"}
    /\ sockState' = "closed"
    /\ lastClose' = Some("connectionReplaced")

\* C35 as stated: a daemon retries a replaced connection after 5 s, without end:
\* the cap on consecutive failures never makes such a close fatal
C35_ReplacedRetriedForever ==
    [][C35_ReplacedClose => reconnectTimer' = Some(5000) /\ ~fatal']_vars

\* C35, amended: a daemon retries a replaced connection after a fixed 5 s and
\* the timer's callback connects again, as long as the close is not the 10th
\* recoverable close in a row; every replaced close counts as a failure, and
\* the 10th in a row is fatal and schedules nothing
C35_ReplacedRetriedUpToCap ==
    [][/\ C35_ReplacedClose =>
             /\ consecutiveFailures' = consecutiveFailures + 1
             /\ IF consecutiveFailures + 1 >= 10
                THEN fatal' /\ reconnectTimer' = reconnectTimer
                ELSE reconnectTimer' = Some(5000) /\ fatal' = fatal
       /\ (reconnectTimer # Null /\ reconnectTimer' = Null /\ ~stopped) => creating']_vars

\* the second replaced close in a row is waiting its 5 s
C35_Witness ==
    /\ supDaemon
    /\ lastClose = Some("connectionReplaced")
    /\ consecutiveFailures = 2
    /\ reconnectTimer = Some(5000)
    /\ ~fatal

\* the tenth close in a row, a replaced one, was fatal
C35_WitnessFatal ==
    /\ supDaemon
    /\ lastClose = Some("connectionReplaced")
    /\ consecutiveFailures = 10
    /\ reconnectTimer = Null
    /\ fatal

\* C38: once stop() has returned and nothing is in flight any more (no connect()
\* before its socket exists or waiting for the open, no timer, no credential
\* write), the socket getSock() returns is not a live one
C38_NoLiveSocketAfterStop ==
    (/\ supPc = "stopped"
     /\ ~creating
     /\ sockState # "connecting"
     /\ reconnectTimer = Null
     /\ ~credsTimer
     /\ saving = {})
    => sockState # "open"

----------------------------------------------------------------------------
(* SpecDaemon: runDaemon around its ReconnectingConnection.  The signals, the *)
(* closes and the credential changes come from outside; what the event loop   *)
(* has ready, it runs.                                                        *)

\* waitForConnection has settled and the continuation of `await conn.start()`
\* is the next thing to run
StartPending ==
    /\ ~started
    /\ supPc # "exited"
    /\ sockState \in {"open", "closed"}

\* await conn.start() resumes: "Daemon started"
StartResolved ==
    /\ ~started
    /\ supPc # "exited"
    /\ sockState = "open"
    /\ started' = TRUE
    /\ UNCHANGED exceptDaemon

\* await conn.start() throws, the first connection having closed before it
\* opened: releaseLock(), process.exit(EXIT_CONNECTION_FAILED)
StartRejected ==
    /\ ~started
    /\ supPc # "exited"
    /\ sockState = "closed"
    /\ supPc' = "exited"
    /\ shutLog' = shutLog \o <<"releaseLock", "exit">>
    /\ UNCHANGED <<supDaemon, consecutiveFailures, stopped, sockState, creating,
                   reconnectTimer, lastClose, fatal, credsSeq, credsSaved, credsDirty,
                   credsTimer, saving, flushedAt, exceptSup>>

DaemonInit ==
    /\ SupInit
    /\ supDaemon
    /\ RemoteIdle

DaemonReady ==
    \/ StartResolved
    \/ StartRejected
    \/ ~StartPending /\ Connected
    \/ ~StartPending /\ ReconnectTimerFires
    \/ ~StartPending /\ CredsTimerFires
    \/ ~StartPending /\ SaveDone
    \/ ~StartPending /\ StopFlushed
    \/ ~StartPending /\ Shutdown

DaemonNext ==
    \/ DaemonReady
    \/ ~StartPending /\ Open
    \/ ~StartPending /\ \E error \in {Null} \cup {Some(c) : c \in StatusCodes} : Close(error)
    \/ ~StartPending /\ CredsUpdate
    \/ ~StartPending /\ Stop

SpecDaemon == DaemonInit /\ [][DaemonNext]_vars /\ WF_vars(DaemonReady)

\* the supervisor of a running daemon will not connect again: the cap was
\* reached, or the connection closed for a reason that is not recovered from
C40_StoppedRetrying ==
    /\ started
    /\ ~stopped
    /\ supPc = "run"
    /\ \/ fatal
       \/ /\ sockState = "closed"
          /\ lastClose # Null
          /\ ~handleDisconnect(lastClose[1], supDaemon)

\* C40: when the daemon's supervisor has stopped retrying for good, the daemon
\* eventually releases the instance lock
C40_FatalLeadsToLockRelease ==
    C40_StoppedRetrying ~> (\E i \in 1..Len(shutLog) : shutLog[i] = "releaseLock")

----------------------------------------------------------------------------
(* SpecRemoteWrite: the sshWuExec call of one forwarded write, with the remote *)
(* peer.  ssh reports the sub-command's exit status when the connection lasts  *)
(* until it has ended; a connection that breaks says nothing about how far the *)
(* sub-command got.                                                            *)

\* the sub-command of the attempt in flight runs to completion on the peer
RemoteCompletes ==
    /\ sshPc = "running"
    /\ sshAttempts \notin remoteRan
    /\ remoteRan' = remoteRan \cup {sshAttempts}
    /\ UNCHANGED exceptRemote

\* what ssh can report of an attempt, given whether its sub-command completed:
\* exit status 0 is the status of a completed sub-command, status 1 that of one
\* that failed; ssh that was not started, not let in or not answered ran nothing
SshReports(err, stderr, ran) ==
    /\ err = "none" => ran
    /\ err \in {"1", "ENOENT"} => ~ran
    /\ stderr \in {<<"Permission denied">>, <<"Connection refused">>} =>
           err = "255" /\ ~ran

\* sshRawExec: spawnSsh(args), retries = 1
RemoteWriteInit ==
    /\ SshInit
    /\ sshRetries0 = 1

RemoteWriteNext ==
    \/ RemoteCompletes
    \/ \E err \in {"none", "1", "255", "null", "ENOENT"}, stdout \in {"", "out"},
          stderr \in {<<>>, <<"ssh: ", "Connection reset", " by peer">>,
                      <<"Operation ", "timed out">>, <<"Broken pipe">>,
                      <<"Permission denied">>, <<"Connection refused">>} :
          /\ SshReports(err, stderr, sshAttempts \in remoteRan)
          /\ AttemptEnds(err, stdout, stderr)
    \/ RetryTimer

SpecRemoteWrite == RemoteWriteInit /\ [][RemoteWriteNext]_vars

\* C39: one forwarded write runs its sub-command to completion on the peer at
\* most once, whatever fails and is retried, and the call reports a failure
\* (a non-zero exit code) only when the sub-command completed in no attempt
C39_RemoteWriteAtMostOnce ==
    /\ Cardinality(remoteRan) <= 1
    /\ (sshPc = "resolved" /\ sshOut[1].exitCode # "0") => remoteRan = {}

====
